---- MODULE Spec2Model ----
(***************************************************************************)
(* Petra: the vault cache (packages/cache) and the bridge's link-graph     *)
(* query (packages/plugin/src/routes/graph.ts).                            *)
(*                                                                         *)
(* Spec       the cache: a vault directory mutated from outside and        *)
(*            syncCache() running as one database transaction.             *)
(* SpecGraph  POST /graph/query: the recursive traversal, one step per     *)
(*            action, over a vault the user adds links to between queries. *)
(* SpecGraphLive  SpecGraph with the handler scheduled fairly.             *)
(***************************************************************************)
EXTENDS Bags, FiniteSets, Integers, Sequences, TLC

(***************************************************************************)
(* Bounds                                                                  *)
(***************************************************************************)
\* largest modification time a vault file can carry
MaxMtime == 2
\* number of external mutations of the vault directory in one behaviour
MaxDiskOps == 2

Min(a, b) == IF a < b THEN a ELSE b
Max(a, b) == IF a > b THEN a ELSE b

(***************************************************************************)
(* Vault files of the cache model                                          *)
(***************************************************************************)
\* vault-relative paths of the Markdown files, in directory-scan order
PathOrder == <<"a.md", "d/b.md">>
Paths == {PathOrder[i] : i \in 1..Len(PathOrder)}

\* file.path.replace(/\.md$/, "")
Stem(p) == IF p = "a.md" THEN "a" ELSE "d/b"
\* file.path.replace(/\.md$/, "").split("/").pop()
Basename(p) == IF p = "a.md" THEN "a" ELSE "b"

\* A link target is the text `name` followed by ".md" when ext is TRUE.
Target(name, ext) == [name |-> name, ext |-> ext]

\* Markdown text is a sequence of tokens.
Wiki(name) == [k |-> "wiki", target |-> Target(name, FALSE)]
MdLink(name, ext, frag, external) ==
    [k |-> "md", href |-> [name |-> name, ext |-> ext, frag |-> frag, external |-> external]]
Hashtag(t) == [k |-> "tag", t |-> t]
FmBlock == [k |-> "fmblock"]

NoData == [title |-> "", tags |-> {}, created |-> "", modified |-> ""]

\* The file contents a vault file can have: fm says whether the text starts
\* with a YAML block and whether that block parses.
DocWork == [fm |-> "ok",
            data |-> [title |-> "Work log", tags |-> {"work"}, created |-> "2024-01-01", modified |-> ""],
            body |-> <<Wiki("b"), Hashtag("home")>>]
DocLinks == [fm |-> "none", data |-> NoData,
             body |-> <<MdLink("a", TRUE, FALSE, FALSE), Wiki("a"), Hashtag("work"),
                        MdLink("site", FALSE, FALSE, TRUE)>>]
DocBadFm == [fm |-> "bad", data |-> NoData,
             body |-> <<Hashtag("todo"), Wiki("d/b")>>]
Docs == {DocWork, DocLinks, DocBadFm}

\* the raw text of a file: the YAML block, when there is one, then the body
RawText(doc) == IF doc.fm = "none" THEN doc.body ELSE <<FmBlock>> \o doc.body

(***************************************************************************)
(* packages/shared/src/frontmatter.ts                                      *)
(***************************************************************************)
parseFrontmatter(doc) ==
    IF doc.fm = "ok"
    THEN [data |-> doc.data, content |-> doc.body]
    ELSE [data |-> NoData, content |-> RawText(doc)]

(***************************************************************************)
(* packages/cache/src/links.ts                                             *)
(***************************************************************************)
SeqRange(s) == {s[i] : i \in 1..Len(s)}

\* href.replace(/\.md$/, "").split("#")[0]
MdTarget(href) ==
    IF href.frag THEN Target(href.name, href.ext) ELSE Target(href.name, FALSE)

\* the links (none or one) a token contributes to the pass over `kind` links
LinkOfToken(tok, kind) ==
    IF tok.k # kind THEN {}
    ELSE IF kind = "wiki" THEN {[target |-> tok.target, type |-> "wiki"]}
    ELSE IF tok.href.external \/ (tok.href.name = "" /\ ~tok.href.ext /\ tok.href.frag)
         THEN {}
    ELSE IF MdTarget(tok.href) = Target("", FALSE) THEN {}
    ELSE {[target |-> MdTarget(tok.href), type |-> "markdown"]}

RECURSIVE LinkPass(_, _, _, _)
LinkPass(content, i, kind, links) ==
    IF i > Len(content) THEN links
    ELSE LET l == LinkOfToken(content[i], kind)
         IN  LinkPass(content, i + 1, kind,
                      IF l \subseteq SeqRange(links) THEN links
                      ELSE Append(links, CHOOSE x \in l : TRUE))

\* the two passes in the other order
extractLinksMarkdownFirst(content) ==
    LinkPass(content, 1, "wiki", LinkPass(content, 1, "md", <<>>))
extractLinks(content) ==
    LinkPass(content, 1, "md", LinkPass(content, 1, "wiki", <<>>))

extractInlineTags(content) ==
    {content[i].t : i \in {j \in 1..Len(content) : content[j].k = "tag"}}

(***************************************************************************)
(* The cache database (packages/cache/src/schema.ts)                       *)
(***************************************************************************)
EmptyDb == [files |-> {}, tags |-> {}, links |-> {}, fts |-> EmptyBag]

FilePaths(t) == {r.path : r \in t.files}
FileRow(t, p) == CHOOSE r \in t.files : r.path = p

\* DELETE FROM files WHERE path = ?  (foreign keys are ON: the tags and
\* links rows of the path go with it; fts_content has no foreign key)
deleteFile(t, p) ==
    [t EXCEPT !.files = {r \in @ : r.path # p},
              !.tags = {r \in @ : r.path # p},
              !.links = {r \in @ : r.source # p}]
\* INSERT OR REPLACE INTO files
insertFile(t, row) ==
    LET d == deleteFile(t, row.path) IN [d EXCEPT !.files = @ \cup {row}]
deleteTags(t, p) == [t EXCEPT !.tags = {r \in @ : r.path # p}]
\* INSERT OR IGNORE INTO tags, for each tag: the primary key is (tag, path)
insertTags(t, tags, p) == [t EXCEPT !.tags = @ \cup {[tag |-> g, path |-> p] : g \in tags}]
deleteLinks(t, p) == [t EXCEPT !.links = {r \in @ : r.source # p}]
\* INSERT OR REPLACE INTO links: the row written last stays
insertLinkOrReplace(t, p, link) ==
    [t EXCEPT !.links = {r \in @ : ~(r.source = p /\ r.target = link.target)}
                            \cup {[source |-> p, target |-> link.target, type |-> link.type]}]
\* INSERT OR IGNORE INTO links: the primary key is (source, target)
insertLink(t, p, link) ==
    IF \E r \in t.links : r.source = p /\ r.target = link.target THEN t
    ELSE [t EXCEPT !.links = @ \cup {[source |-> p, target |-> link.target, type |-> link.type]}]
\* DELETE FROM fts_content WHERE path = ? left out: the old search row stays
deleteFtsNone(t, p) == t
deleteFts(t, p) ==
    [t EXCEPT !.fts = [r \in {x \in DOMAIN @ : x.path # p} |-> @[r]]]
insertFts(t, row) == [t EXCEPT !.fts = @ (+) SetToBag({row})]

RECURSIVE insertLinks(_, _, _, _)
insertLinks(t, p, links, i) ==
    IF i > Len(links) THEN t ELSE insertLinks(insertLink(t, p, links[i]), p, links, i + 1)

\* the rows of one file in every table
RowsOf(t, p) ==
    [files |-> {r \in t.files : r.path = p},
     tags |-> {r.tag : r \in {x \in t.tags : x.path = p}},
     links |-> {r \in t.links : r.source = p},
     fts |-> [r \in {x \in DOMAIN t.fts : x.path = p} |-> t.fts[r]]]

(***************************************************************************)
(* packages/cache/src/index.ts: the read-only queries                      *)
(***************************************************************************)
\* path.endsWith(".md") ? path : `${path}.md`
normalizedPath(path) ==
    IF path \in Paths THEN path
    ELSE IF \E p \in Paths : Stem(p) = path THEN CHOOSE p \in Paths : Stem(p) = path
    ELSE "?.md"

\* the note paths listNotes() returns when no folder and no limit is given
listNotes(t) == {Stem(r.path) : r \in t.files}

getAllTags(t) ==
    [tag \in {r.tag : r \in t.tags} |-> Cardinality({r \in t.tags : r.tag = tag})]

getOutlinks(t, path) ==
    {[target |-> r.target, type |-> r.type] :
        r \in {x \in t.links : x.source = normalizedPath(path)}}

getBacklinks(t, path) ==
    LET np == normalizedPath(path)
    IN  IF np \notin Paths THEN {}
        ELSE {[source |-> r.source, type |-> r.type] :
                r \in {x \in t.links : \/ x.target = Target(Stem(np), TRUE)
                                       \/ x.target = Target(Stem(np), FALSE)
                                       \/ x.target = Target(Basename(np), FALSE)}}

(***************************************************************************)
(* packages/cache/src/sync.ts                                              *)
(***************************************************************************)
ZeroStats == [added |-> 0, modified |-> 0, deleted |-> 0, unchanged |-> 0]

\* the vault directory: each path is absent, or a file with a modification
\* time, a content and a read permission
Absent == [present |-> FALSE]
DiskFile(m, doc, r) == [present |-> TRUE, mtime |-> m, doc |-> doc, readable |-> r]

\* stat.size
SizeOf(doc) == Len(RawText(doc))

RECURSIVE scan(_, _)
scan(d, i) ==
    IF i > Len(PathOrder) THEN <<>>
    ELSE LET p == PathOrder[i]
         IN  (IF d[p].present
              THEN <<[path |-> p, mtime |-> d[p].mtime, size |-> SizeOf(d[p].doc)]>>
              ELSE <<>>) \o scan(d, i + 1)
\* stat.mtimeMs kept to a coarser unit: two versions of a file share a time
scanVaultCoarse(d) == [i \in DOMAIN scan(d, 1) |-> [scan(d, 1)[i] EXCEPT !.mtime = (@ + 1) \div 2]]
scanVault(d) == scan(d, 1)

\* lines 152-161: the class of a scanned file against the cached mtimes
ClassifyNewerOnly(cachedMap, file) ==
    IF file.path \notin DOMAIN cachedMap THEN "added"
    ELSE IF cachedMap[file.path] < file.mtime THEN "modified"
    ELSE "unchanged"
Classify(cachedMap, file) ==
    IF file.path \notin DOMAIN cachedMap THEN "added"
    ELSE IF cachedMap[file.path] # file.mtime THEN "modified"
    ELSE "unchanged"

\* processFile after a successful readFileSync that returned `doc`
processFileKeepRows(t, file, doc) ==
    LET pf == parseFrontmatter(doc)
        title == IF pf.data.title # "" THEN pf.data.title ELSE Basename(file.path)
        allTags == pf.data.tags \cup extractInlineTags(pf.content)
        t1 == [t EXCEPT !.files = {r \in @ : r.path # file.path} \cup
                 {[path |-> file.path, mtime |-> file.mtime, size |-> file.size, title |-> title,
                   created |-> pf.data.created, modified |-> pf.data.modified,
                   frontmatter |-> pf.data]}]
        t3 == insertTags(t1, allTags, file.path)
        t5 == insertLinks(t3, file.path, extractLinks(pf.content), 1)
    IN  insertFts(t5, [path |-> file.path, title |-> title, content |-> pf.content])
processFile(t, file, doc) ==
    LET pf == parseFrontmatter(doc)
        title == IF pf.data.title # "" THEN pf.data.title ELSE Basename(file.path)
        allTags == pf.data.tags \cup extractInlineTags(pf.content)
        t1 == insertFile(t, [path |-> file.path, mtime |-> file.mtime, size |-> file.size,
                             title |-> title, created |-> pf.data.created,
                             modified |-> pf.data.modified, frontmatter |-> pf.data])
        t2 == deleteTags(t1, file.path)
        t3 == insertTags(t2, allTags, file.path)
        t4 == deleteLinks(t3, file.path)
        t5 == insertLinks(t4, file.path, extractLinks(pf.content), 1)
        t6 == deleteFts(t5, file.path)
    IN  insertFts(t6, [path |-> file.path, title |-> title, content |-> pf.content])

\* lines 167-170: retract a cached path that is no longer on disk
deleteCachedKeepFile(t, p) == deleteFts(deleteLinks(deleteTags(t, p), p), p)
deleteCached(t, p) == deleteFile(deleteFts(deleteLinks(deleteTags(t, p), p), p), p)

\* db.transaction(): what other readers of the database see while the
\* transaction function is running or after it threw
transactionNone(committed, working) == working
transaction(committed, working) == committed

\* lines 155, 158, 160: the counter bumped for a class
Bump(s, class) ==
    IF class = "added" THEN [s EXCEPT !.added = @ + 1]
    ELSE IF class = "modified" THEN [s EXCEPT !.modified = @ + 1]
    ELSE [s EXCEPT !.unchanged = @ + 1]

NoClass == [p \in Paths |-> "none"]
NoPrev == [modified |-> {}, read |-> {}]

VARIABLES
    disk,        \* the vault directory
    db,          \* the committed cache database, as any reader sees it
    txn,         \* the database as the running transaction sees it
    pc,          \* "idle", "files" (151-162), "deletes" (165-173), "commit" (176)
    diskFiles,   \* scanVault's result for the current or last pass
    cachedFiles, \* path -> mtime as loaded at lines 83-86
    idx,         \* position in diskFiles
    stats,       \* the SyncStats of the current or last pass
    class,       \* path -> class given at lines 152-161 in this pass
    readRes,     \* path -> what readFileSync did for it in this pass
    outcome,     \* "none", "committed" or "threw": how the last pass ended
    dbBefore,    \* db as it was when the current or last pass began
    prev,        \* the paths the pass before, if it committed, classified as modified, and those it read
    quiet,       \* completed passes since the vault directory last changed
    dirty,       \* the vault directory changed during the current or last pass
    ops          \* external mutations so far

syncVars == <<disk, db, txn, pc, diskFiles, cachedFiles, idx, stats, class, readRes,
              outcome, dbBefore, prev, quiet, dirty, ops>>

NotRead == [st |-> "none"]
Unreadable == [st |-> "unreadable"]
ReadOk(doc) == [st |-> "read", doc |-> doc]
NoRead == [p \in Paths |-> NotRead]

SyncInit ==
    /\ disk = [p \in Paths |-> Absent]
    /\ db = EmptyDb
    /\ txn = EmptyDb
    /\ pc = "idle"
    /\ diskFiles = <<>>
    /\ cachedFiles = <<>>
    /\ idx = 1
    /\ stats = ZeroStats
    /\ class = NoClass
    /\ readRes = NoRead
    /\ outcome = "none"
    /\ dbBefore = EmptyDb
    /\ prev = NoPrev
    /\ quiet = 0
    /\ dirty = FALSE
    /\ ops = 0

\* An external program changes the vault directory.  Between passes the
\* record of the last pass is dropped: it describes a vault that is gone.
DiskChange(p, e) ==
    /\ ops < MaxDiskOps
    /\ disk[p] # e
    /\ disk' = [disk EXCEPT ![p] = e]
    /\ ops' = ops + 1
    /\ quiet' = 0
    /\ IF pc = "idle"
       THEN /\ dirty' = FALSE
            /\ diskFiles' = <<>>
            /\ cachedFiles' = <<>>
            /\ stats' = ZeroStats
            /\ class' = NoClass
            /\ readRes' = NoRead
            /\ outcome' = "none"
            /\ dbBefore' = db
            /\ prev' = NoPrev
       ELSE /\ dirty' = TRUE
            /\ UNCHANGED <<diskFiles, cachedFiles, stats, class, readRes, outcome, dbBefore, prev>>
    /\ UNCHANGED <<db, txn, pc, idx>>

\* a file is created or replaced, by one that can or cannot be read
DiskWrite ==
    \E p \in Paths, m \in 1..MaxMtime, doc \in Docs, r \in BOOLEAN :
        DiskChange(p, DiskFile(m, doc, r))
\* a file is removed
DiskRemove ==
    \E p \in Paths : disk[p].present /\ DiskChange(p, Absent)
\* a file's read permission is flipped
DiskChmod ==
    \E p \in Paths : disk[p].present /\ DiskChange(p, [disk[p] EXCEPT !.readable = ~@])

\* the rows of cachedFiles, in the order line 165 iterates them
CachedOrder == SelectSeq(PathOrder, LAMBDA p : p \in DOMAIN cachedFiles)

\* syncCache lines 69-99: scan the vault, load the cached mtimes, BEGIN
SyncBegin ==
    /\ pc = "idle"
    /\ diskFiles' = scanVault(disk)
    /\ cachedFiles' = [p \in FilePaths(db) |-> FileRow(db, p).mtime]
    /\ txn' = db
    /\ dbBefore' = db
    /\ pc' = IF scanVault(disk) = <<>> THEN "deletes" ELSE "files"
    /\ idx' = 1
    /\ stats' = ZeroStats
    /\ prev' = IF outcome = "committed"
               THEN [modified |-> {p \in Paths : class[p] = "modified"},
                     read |-> {p \in Paths : readRes[p].st = "read"}]
               ELSE NoPrev
    /\ class' = NoClass
    /\ readRes' = NoRead
    /\ outcome' = "none"
    /\ dirty' = FALSE
    /\ UNCHANGED <<disk, db, quiet, ops>>

\* lines 151-162, one iteration: classify diskFiles[idx], and for an added
\* or modified file run processFile (lines 102-146) on what is on disk now
SyncFile ==
    /\ pc = "files"
    /\ idx <= Len(diskFiles)
    /\ LET file == diskFiles[idx]
           c == Classify(cachedFiles, file)
           e == disk[file.path]
       IN  /\ class' = [class EXCEPT ![file.path] = c]
           /\ stats' = Bump(stats, c)
           /\ IF c = "unchanged"
              THEN UNCHANGED <<txn, readRes>>
              ELSE IF e.present /\ e.readable
              THEN /\ readRes' = [readRes EXCEPT ![file.path] = ReadOk(e.doc)]
                   /\ txn' = processFile(txn, file, e.doc)
              ELSE /\ readRes' = [readRes EXCEPT ![file.path] = Unreadable]
                   /\ UNCHANGED txn
    /\ IF idx = Len(diskFiles)
       THEN pc' = "deletes" /\ idx' = 1
       ELSE pc' = pc /\ idx' = idx + 1
    /\ db' = transaction(db, txn')
    /\ UNCHANGED <<disk, diskFiles, cachedFiles, outcome, dbBefore, prev, quiet, dirty, ops>>

\* lines 165-173 over the cached paths in order: a cached path the scan
\* did not return loses its rows
RECURSIVE deleteMissing(_, _, _)
deleteMissing(t, order, diskPaths) ==
    IF order = <<>> THEN t
    ELSE deleteMissing(IF Head(order) \notin diskPaths THEN deleteCached(t, Head(order)) ELSE t,
                       Tail(order), diskPaths)

\* lines 165-173, the whole loop: it reads cachedFiles and diskFiles only
SyncDelete ==
    /\ pc = "deletes"
    /\ LET diskPaths == {diskFiles[i].path : i \in 1..Len(diskFiles)}
           missing == {p \in DOMAIN cachedFiles : p \notin diskPaths}
       IN  /\ txn' = deleteMissing(txn, CachedOrder, diskPaths)
           /\ stats' = [stats EXCEPT !.deleted = @ + Cardinality(missing)]
    /\ pc' = "commit"
    /\ db' = transaction(db, txn')
    /\ UNCHANGED <<disk, diskFiles, cachedFiles, idx, class, readRes, outcome, dbBefore, prev,
                   quiet, dirty, ops>>

\* line 176 returns: COMMIT
SyncCommit ==
    /\ pc = "commit"
    /\ db' = txn
    /\ pc' = "idle"
    /\ outcome' = "committed"
    /\ quiet' = IF dirty THEN 0 ELSE Min(quiet + 1, 2)
    /\ UNCHANGED <<disk, txn, diskFiles, cachedFiles, idx, stats, class, readRes, dbBefore,
                   prev, dirty, ops>>

\* a statement inside the transaction function throws (SQLITE_FULL,
\* SQLITE_BUSY, a value that cannot be bound): ROLLBACK, syncCache throws
SyncThrow ==
    /\ pc \in {"files", "deletes", "commit"}
    /\ db' = transaction(db, txn)
    /\ txn' = db'
    /\ pc' = "idle"
    /\ outcome' = "threw"
    /\ quiet' = 0
    /\ UNCHANGED <<disk, diskFiles, cachedFiles, idx, stats, class, readRes, dbBefore, prev,
                   dirty, ops>>

SyncNext ==
    \/ DiskWrite
    \/ DiskRemove
    \/ DiskChmod
    \/ SyncBegin
    \/ SyncFile
    \/ SyncDelete
    \/ SyncCommit
    \/ SyncThrow

(***************************************************************************)
(* Properties of the cache                                                 *)
(***************************************************************************)
ScanPaths == {diskFiles[i].path : i \in 1..Len(diskFiles)}
ScanEntry(p) == CHOOSE f \in SeqRange(diskFiles) : f.path = p
Committed == pc = "idle" /\ outcome = "committed"
\* the files the pass could not read, and those whose YAML block did not parse
Unread == {p \in Paths : readRes[p] = Unreadable}
BadFm == {p \in Paths : readRes[p].st = "read" /\ readRes[p].doc.fm = "bad"}
\* the scanned files by cache membership and mtime equality
AddedSet == {p \in ScanPaths : p \notin DOMAIN cachedFiles}
ModifiedSet == {p \in ScanPaths : p \in DOMAIN cachedFiles /\ cachedFiles[p] # ScanEntry(p).mtime}
UnchangedSet == {p \in ScanPaths : p \in DOMAIN cachedFiles /\ cachedFiles[p] = ScanEntry(p).mtime}

\* the rows of path p are those extracted from the content doc, and nothing else
RowsReflect(t, p, doc) ==
    LET pf == parseFrontmatter(doc)
        links == SeqRange(extractLinks(pf.content))
        rows == RowsOf(t, p)
    IN  /\ rows.tags = pf.data.tags \cup extractInlineTags(pf.content)
        /\ {r.target : r \in rows.links} = {l.target : l \in links}
        /\ \A r \in rows.links : [target |-> r.target, type |-> r.type] \in links
        /\ BagCardinality(rows.fts) = 1
        /\ \A r \in DOMAIN rows.fts : r.content = pf.content

\* C1: a second sync() in a row, with no change to the vault directory since
\* before the first, reports added = modified = deleted = 0 and leaves every
\* table as the first left it.
C1_SecondSyncIsNoop ==
    (Committed /\ quiet = 2) =>
        /\ stats.added = 0 /\ stats.modified = 0 /\ stats.deleted = 0
        /\ db = dbBefore

C3_DeletionCascade ==
    \A p \in Paths :
        (Committed /\ p \notin ScanPaths /\ ~disk[p].present) =>
            /\ Stem(p) \notin listNotes(db)
            /\ \A tag \in DOMAIN getAllTags(db) :
                  getAllTags(db)[tag] =
                      Cardinality({q \in Paths \ {p} : tag \in RowsOf(db, q).tags})
            /\ getOutlinks(db, p) = {}
            /\ \A q \in Paths : \A e \in getBacklinks(db, q) : e.source # p
            /\ \A r \in DOMAIN db.fts : r.path # p

\* an indexed file with tags and links was removed and the pass retracted it
C3_Witness ==
    \E p \in Paths :
        /\ Committed /\ p \notin ScanPaths /\ ~disk[p].present
        /\ p \in FilePaths(dbBefore) /\ stats.deleted >= 1
        /\ RowsOf(dbBefore, p).tags # {}
        /\ \E q \in Paths : \E e \in getBacklinks(dbBefore, q) : e.source = p

\* C4: the writes of one sync() are atomic: while the pass runs and after it
\* failed, the tables a reader sees are those from before the pass; after
\* it committed they are the transaction's final tables.
C4_SyncAtomic ==
    /\ pc # "idle" => db = dbBefore
    /\ outcome = "threw" => db = dbBefore
    /\ Committed => db = txn

\* a pass failed after it had already processed a file
C4_Witness ==
    /\ pc = "idle" /\ outcome = "threw"
    /\ \E p \in Paths : readRes[p].st = "read"
    /\ stats.added + stats.modified >= 1

\* C5: a file that cannot be read, or whose frontmatter fails to parse, gets
\* no row inserted or updated in the pass and is counted neither as added
\* nor as modified.
C5_SkippedFileNotCounted ==
    (pc \in {"deletes", "commit"} \/ Committed) =>
        /\ \A p \in Unread \cup BadFm : RowsOf(txn, p) = RowsOf(dbBefore, p)
        /\ stats.added = Cardinality(AddedSet \ (Unread \cup BadFm))
        /\ stats.modified = Cardinality(ModifiedSet \ (Unread \cup BadFm))

\* C6: each scanned file is classified by cache membership and mtime
\* equality alone, and an unchanged file is not read and keeps its rows.
C6_ClassifiedByMtimeOnly ==
    /\ \A p \in Paths :
          class[p] # "none" =>
              /\ p \in ScanPaths
              /\ class[p] = "added" <=> p \in AddedSet
              /\ class[p] = "modified" <=> p \in ModifiedSet
              /\ class[p] = "unchanged" <=> p \in UnchangedSet
              /\ class[p] = "unchanged" =>
                    (readRes[p] = NotRead /\ (pc # "idle" => RowsOf(txn, p) = RowsOf(dbBefore, p)))
    /\ (pc \in {"deletes", "commit"} \/ Committed) =>
          /\ \A p \in ScanPaths : class[p] # "none"
          /\ stats.unchanged = Cardinality(UnchangedSet)
          /\ \A p \in UnchangedSet : RowsOf(txn, p) = RowsOf(dbBefore, p)

\* a file whose content and size changed but whose mtime did not is unchanged
C6_Witness ==
    \E p \in Paths :
        /\ Committed /\ ~dirty /\ class[p] = "unchanged" /\ disk[p].present
        /\ FileRow(db, p).size # SizeOf(disk[p].doc)

(***************************************************************************)
(* packages/plugin/src/routes/graph.ts: POST /graph/query                  *)
(***************************************************************************)
\* links the user may add to the small vault in one behaviour
MaxLinks == 2
\* notes of the chain vault n1 -> n2 -> ... -> nChainLen
ChainLen == 52

MAX_DEPTH == 50
MAX_NODES == 10000
MAX_TIMEOUT == 30000

\* A TFile is a folder (0 is the vault root) and a basename; a link text or
\* a map key is a folder, a name and whether ".md" follows the name.
TFile(dir, base) == [dir |-> dir, base |-> base]
Key(dir, base, ext) == [dir |-> dir, base |-> base, ext |-> ext]
\* file.path and file.basename as keys
PathKey(f) == Key(f.dir, f.base, TRUE)
BasenameKey(f) == Key(0, f.base, FALSE)

\* the vaults: three notes the user links at will, or a long chain
SmallFiles == <<TFile(0, 1), TFile(0, 2), TFile(1, 3)>>
ChainFiles == [i \in 1..ChainLen |-> TFile(0, i)]
ChainContent ==
    [i \in 1..ChainLen |->
        IF i < ChainLen THEN <<[type |-> "wiki", target |-> Key(0, i + 1, FALSE)]>> ELSE <<>>]
\* a vault of six notes in which note 4 is one hop from note 1 and also at
\* the end of the longer path 1 -> 2 -> 3 -> 4, with 4 -> 5 -> 6 behind it
DiamondFiles == [i \in 1..6 |-> TFile(0, i)]
DiamondLinks == <<{2, 4}, {3}, {4}, {5}, {6}, {}>>
\* the text orders of the links of note i
DiamondOrders(i) ==
    {ls \in [1..Cardinality(DiamondLinks[i]) ->
                {[type |-> "wiki", target |-> Key(0, b, FALSE)] : b \in DiamondLinks[i]}] :
        \A j \in DOMAIN ls : \A k \in DOMAIN ls : ls[j] = ls[k] => j = k}
\* the depth asked for on that vault
DiamondDepth == 3
\* the link texts the user writes: [[1]], [[2]], [[3]] and [x](sub/3.md)
LinkTokens ==
    {[type |-> "wiki", target |-> Key(0, b, FALSE)] : b \in 1..3}
        \cup {[type |-> "markdown", target |-> Key(1, 3, TRUE)]}

\* the requests: `from` is a note path with or without ".md", a name that
\* matches no note, or absent
NoFrom == Key(0, 0, FALSE)
ReqFrom == {Key(0, 1, TRUE), Key(0, 1, FALSE), Key(0, 99, FALSE), NoFrom}
ReqDepth == {-1, 0, 1, 999999}
ReqMaxNodes == {0, 2, 999999999}
ReqTimeout == {0, 999999}
Directions == {"in", "out", "both"}
\* the values Date.now() - startTime is observed at
ElapsedVals == {0, 1001, 30001}

\* lines 50-52
safeDepthUnclamped(depth) == Max(0, depth)
safeDepth(depth) == Min(Max(0, depth), MAX_DEPTH)
safeMaxNodes(maxNodes) == Min(Max(1, maxNodes), MAX_NODES)
safeTimeout(timeout) == Min(Max(1000, timeout), MAX_TIMEOUT)

\* fileMap.get(key): the last file set under the key, 0 when there is none
RECURSIVE fileMapGet(_, _, _)
fileMapGet(files, key, i) ==
    IF i = 0 THEN 0
    ELSE IF PathKey(files[i]) = key \/ BasenameKey(files[i]) = key THEN i
    ELSE fileMapGet(files, key, i - 1)

\* fileMap.get(target) || fileMap.get(target + ".md")
resolve(files, key) ==
    LET a == fileMapGet(files, key, Len(files))
    IN  IF a # 0 THEN a
        ELSE IF key.ext THEN 0
        ELSE fileMapGet(files, [key EXCEPT !.ext = TRUE], Len(files))

SelectType(content, type) == SelectSeq(content, LAMBDA l : l.type = type)
\* href.replace(/\.md$/, "")
StripMd(l) == [l EXCEPT !.target.ext = FALSE]
RECURSIVE MapStripMd(_)
MapStripMd(ls) == IF ls = <<>> THEN <<>> ELSE <<StripMd(Head(ls))>> \o MapStripMd(Tail(ls))
\* lines 103-123: every wikilink, then every markdown link
graphExtractLinks(content) ==
    SelectType(content, "wiki") \o MapStripMd(SelectType(content, "markdown"))

\* line 78
filesToIndex(files, cap) == SubSeq(files, 1, Min(Len(files), cap))

\* lines 128 and 163: the node map is full
nodesFull(n, cap) == Cardinality(n) >= cap

\* line 158: the visited set holds the path the call was given
visitedHas(v, path) == path \in v

\* lines 195 and 220
edgeExists(es, src, tgt) == \E i \in 1..Len(es) : es[i].source = src /\ es[i].target = tgt

VARIABLES
    gfiles,      \* app.vault.getMarkdownFiles()
    gcontent,    \* file index -> the links written in the file, in text order
    linkBudget,  \* links the user may still add
    gpc,         \* "idle", "index", "traverse", "snapshot", "done"
    req,         \* the request body
    safe,        \* safeDepth, safeMaxNodes, safeTimeout
    nodes,       \* keys of the node map (file indices)
    edges,       \* the edge list
    visited,     \* the visited set
    truncated,
    elapsed,     \* Date.now() - startTime
    backlinksIndex, \* file index -> sequence of [file, type]
    stack,       \* the active calls of traverse, innermost last
    gi,          \* position of the index build or of the snapshot loop
    expansions,  \* every [file, depth] line 178 was reached with
    scanned,     \* the files buildBacklinksIndex read, in order
    capStopped   \* the limits that kept a note from being expanded

graphVars == <<gfiles, gcontent, linkBudget, gpc, req, safe, nodes, edges, visited,
               truncated, elapsed, backlinksIndex, stack, gi, expansions, scanned, capStopped>>

NoReq == [from |-> NoFrom, depth |-> 1, direction |-> "both", maxNodes |-> 1000, timeout |-> 5000]
NoIndex(files) == [i \in 1..Len(files) |-> <<>>]

GraphReset ==
    /\ gpc = "idle"
    /\ req = NoReq
    /\ safe = [depth |-> 1, maxNodes |-> 1000, timeout |-> 5000]
    /\ nodes = {}
    /\ edges = <<>>
    /\ visited = {}
    /\ truncated = FALSE
    /\ elapsed = 0
    /\ stack = <<>>
    /\ gi = 1
    /\ expansions = <<>>
    /\ scanned = <<>>
    /\ capStopped = {}

GraphInit ==
    /\ \/ /\ gfiles = SmallFiles
          /\ gcontent = [i \in 1..Len(SmallFiles) |-> <<>>]
          /\ linkBudget = MaxLinks
       \/ /\ gfiles = ChainFiles
          /\ gcontent = ChainContent
          /\ linkBudget = 0
       \/ /\ gfiles = DiamondFiles
          /\ gcontent \in {c \in [1..6 -> UNION {DiamondOrders(i) : i \in 1..6}] :
                              \A i \in 1..6 : c[i] \in DiamondOrders(i)}
          /\ linkBudget = 0
    /\ backlinksIndex = NoIndex(gfiles)
    /\ GraphReset

GraphFrozen ==
    /\ gfiles = <<>>
    /\ gcontent = <<>>
    /\ linkBudget = 0
    /\ backlinksIndex = <<>>
    /\ GraphReset

Frame(path, depth) == [path |-> path, depth |-> depth, phase |-> "enter", file |-> 0, i |-> 1]
Top == stack[Len(stack)]
SetTop(f) == [stack EXCEPT ![Len(stack)] = f]
HasOut == req.direction \in {"out", "both"}
HasIn == req.direction \in {"in", "both"}

\* the user writes one more link at the end of a note
AddLink ==
    /\ gpc = "idle"
    /\ linkBudget > 0
    /\ \E f \in 1..Len(gfiles), l \in LinkTokens :
          gcontent' = [gcontent EXCEPT ![f] = Append(@, l)]
    /\ linkBudget' = linkBudget - 1
    /\ UNCHANGED <<gfiles, gpc, req, safe, nodes, edges, visited, truncated, elapsed,
                   backlinksIndex, stack, gi, expansions, scanned, capStopped>>

\* lines 30-68 and 233-240: a request arrives
GraphQuery ==
    /\ gpc = "idle"
    /\ \E from \in ReqFrom,
          depth \in IF gfiles = DiamondFiles THEN {DiamondDepth} ELSE ReqDepth,
          direction \in Directions,
          maxNodes \in ReqMaxNodes, timeout \in ReqTimeout :
          \* a negative depth is sent with the largest maxNodes and timeout only
          /\ depth < 0 => (maxNodes = 999999999 /\ timeout = 999999)
          /\ req' = [from |-> from, depth |-> depth, direction |-> direction,
                     maxNodes |-> maxNodes, timeout |-> timeout]
          /\ safe' = [depth |-> safeDepth(depth), maxNodes |-> safeMaxNodes(maxNodes),
                      timeout |-> safeTimeout(timeout)]
          /\ gpc' = IF from = NoFrom THEN "snapshot"
                    ELSE IF direction \in {"in", "both"} THEN "index" ELSE "traverse"
          /\ stack' = IF from = NoFrom THEN <<>> ELSE <<Frame(from, 0)>>
    /\ nodes' = {}
    /\ edges' = <<>>
    /\ visited' = {}
    /\ truncated' = FALSE
    /\ elapsed' = 0
    /\ backlinksIndex' = NoIndex(gfiles)
    /\ gi' = 1
    /\ expansions' = <<>>
    /\ scanned' = <<>>
    /\ capStopped' = {}
    /\ UNCHANGED <<gfiles, gcontent, linkBudget>>

\* time passes while the handler awaits a read
Tick ==
    /\ gpc \in {"index", "traverse", "snapshot"}
    /\ \E t \in ElapsedVals : t > elapsed /\ elapsed' = t
    /\ UNCHANGED <<gfiles, gcontent, linkBudget, gpc, req, safe, nodes, edges, visited,
                   truncated, backlinksIndex, stack, gi, expansions, scanned, capStopped>>

\* the index entries the links of file f add (lines 89-98)
RECURSIVE indexLinks(_, _, _, _)
indexLinks(ix, f, links, i) ==
    IF i > Len(links) THEN ix
    ELSE LET t == resolve(gfiles, links[i].target)
         IN  indexLinks(IF t = 0 THEN ix
                        ELSE [ix EXCEPT ![t] = Append(@, [file |-> f, type |-> links[i].type])],
                        f, links, i + 1)

\* buildBacklinksIndex, lines 79-99: one iteration, or the end of the loop
IndexFile ==
    /\ gpc = "index"
    /\ LET todo == filesToIndex(gfiles, safe.maxNodes)
       IN  IF gi > Len(todo)
           THEN /\ gpc' = "traverse"
                /\ UNCHANGED <<truncated, backlinksIndex, gi, scanned>>
           ELSE IF elapsed > safe.timeout
           THEN /\ truncated' = TRUE
                /\ gpc' = "traverse"
                /\ UNCHANGED <<backlinksIndex, gi, scanned>>
           ELSE /\ backlinksIndex' = indexLinks(backlinksIndex, gi, graphExtractLinks(gcontent[gi]), 1)
                /\ scanned' = Append(scanned, gi)
                /\ gi' = gi + 1
                /\ UNCHANGED <<truncated, gpc>>
    /\ UNCHANGED <<gfiles, gcontent, linkBudget, req, safe, nodes, edges, visited, elapsed,
                   stack, expansions, capStopped>>

\* traverse returns true to its caller
Pop == /\ stack' = SubSeq(stack, 1, Len(stack) - 1)
       /\ gpc' = IF Len(stack) = 1 THEN "done" ELSE gpc
\* traverse returns false: every caller returns false in turn
Abort == /\ stack' = <<>>
         /\ gpc' = "done"

\* lines 145-179: a call of traverse up to the read of the file
Enter ==
    /\ gpc = "traverse"
    /\ stack # <<>>
    /\ Top.phase = "enter"
    /\ LET f == Top
           file == resolve(gfiles, f.path)
           wouldExpand == /\ elapsed <= safe.timeout
                          /\ ~visitedHas(visited, f.path)
                          /\ ~nodesFull(nodes, safe.maxNodes)
                          /\ file # 0
       IN  IF f.depth > safe.depth
           THEN /\ Pop
                /\ capStopped' = IF wouldExpand /\ req.depth > MAX_DEPTH
                                 THEN capStopped \cup {"depth"} ELSE capStopped
                /\ UNCHANGED <<nodes, visited, truncated, expansions>>
           ELSE IF elapsed > safe.timeout
           THEN /\ truncated' = TRUE
                /\ Abort
                /\ capStopped' = capStopped \cup {"timeout"}
                /\ UNCHANGED <<nodes, visited, expansions>>
           ELSE IF visitedHas(visited, f.path)
           THEN /\ Pop
                /\ UNCHANGED <<nodes, visited, truncated, expansions, capStopped>>
           ELSE IF nodesFull(nodes, safe.maxNodes)
           THEN /\ truncated' = TRUE
                /\ Abort
                /\ capStopped' = capStopped \cup {"nodes"}
                /\ UNCHANGED <<nodes, visited, expansions>>
           ELSE /\ visited' = visited \cup {f.path}
                /\ IF file = 0
                   THEN /\ Pop
                        /\ UNCHANGED <<nodes, expansions>>
                   ELSE /\ nodes' = nodes \cup {file}
                        /\ expansions' = Append(expansions, [file |-> file, depth |-> f.depth])
                        /\ stack' = SetTop([f EXCEPT !.file = file,
                                                     !.phase = IF HasOut THEN "out" ELSE "in"])
                        /\ UNCHANGED gpc
                /\ UNCHANGED <<truncated, capStopped>>
    /\ UNCHANGED <<gfiles, gcontent, linkBudget, req, safe, edges, elapsed, backlinksIndex,
                   gi, scanned>>

\* lines 126-142 and 187-201 / 212-226: add the neighbour and the edge,
\* then call traverse on the neighbour
Visit(f, neighbour, src, tgt, type) ==
    IF nodesFull(nodes, safe.maxNodes)
    THEN /\ truncated' = TRUE
         /\ Abort
         /\ capStopped' = capStopped \cup {"nodes"}
         /\ UNCHANGED <<nodes, edges>>
    ELSE /\ nodes' = nodes \cup {neighbour}
         /\ edges' = IF edgeExists(edges, src, tgt) THEN edges
                     ELSE Append(edges, [source |-> src, target |-> tgt, type |-> type])
         /\ stack' = Append(SetTop([f EXCEPT !.i = @ + 1]), Frame(PathKey(gfiles[neighbour]), f.depth + 1))
         /\ UNCHANGED <<gpc, truncated, capStopped>>

\* lines 182-204: one iteration over the outgoing links, or the loop's end
OutLink ==
    /\ gpc = "traverse"
    /\ stack # <<>>
    /\ Top.phase = "out"
    /\ LET f == Top
           links == graphExtractLinks(gcontent[f.file])
       IN  IF f.i > Len(links)
           THEN /\ IF HasIn
                   THEN stack' = SetTop([f EXCEPT !.phase = "in", !.i = 1]) /\ UNCHANGED gpc
                   ELSE Pop
                /\ UNCHANGED <<nodes, edges, truncated, capStopped>>
           ELSE LET t == resolve(gfiles, links[f.i].target)
                IN  IF t = 0
                    THEN /\ stack' = SetTop([f EXCEPT !.i = @ + 1])
                         /\ UNCHANGED <<gpc, nodes, edges, truncated, capStopped>>
                    ELSE Visit(f, t, f.file, t, links[f.i].type)
    /\ UNCHANGED <<gfiles, gcontent, linkBudget, req, safe, visited, elapsed, backlinksIndex,
                   gi, expansions, scanned>>

\* lines 207-230: one iteration over the indexed backlinks, or the return
InLink ==
    /\ gpc = "traverse"
    /\ stack # <<>>
    /\ Top.phase = "in"
    /\ LET f == Top
           backlinks == backlinksIndex[f.file]
       IN  IF f.i > Len(backlinks)
           THEN /\ Pop
                /\ UNCHANGED <<nodes, edges, truncated, capStopped>>
           ELSE IF backlinks[f.i].file = f.file
           THEN /\ stack' = SetTop([f EXCEPT !.i = @ + 1])
                /\ UNCHANGED <<gpc, nodes, edges, truncated, capStopped>>
           ELSE Visit(f, backlinks[f.i].file, backlinks[f.i].file, f.file, backlinks[f.i].type)
    /\ UNCHANGED <<gfiles, gcontent, linkBudget, req, safe, visited, elapsed, backlinksIndex,
                   gi, expansions, scanned>>

\* lines 257-267: the edges of one file of the whole-vault snapshot
RECURSIVE snapshotLinks(_, _, _, _)
snapshotLinks(acc, f, links, i) ==
    IF i > Len(links) THEN acc
    ELSE LET t == resolve(gfiles, links[i].target)
         IN  IF t = 0 THEN snapshotLinks(acc, f, links, i + 1)
             ELSE IF nodesFull(acc.nodes, safe.maxNodes)
             THEN [acc EXCEPT !.truncated = TRUE]
             ELSE snapshotLinks([acc EXCEPT !.nodes = @ \cup {t},
                                            !.edges = Append(@, [source |-> f, target |-> t,
                                                                 type |-> links[i].type])],
                                f, links, i + 1)

\* lines 241-274: one iteration of the snapshot loop, or its end
SnapshotFile ==
    /\ gpc = "snapshot"
    /\ LET limitForFullGraph == Min(100, safe.maxNodes)
           n == Min(Len(gfiles), limitForFullGraph)
           finish(tr) == /\ truncated' = (tr \/ limitForFullGraph < Len(gfiles))
                         /\ gpc' = "done"
       IN  IF gi > n
           THEN finish(truncated) /\ UNCHANGED <<nodes, edges, gi>>
           ELSE IF elapsed > safe.timeout
           THEN finish(TRUE) /\ UNCHANGED <<nodes, edges, gi>>
           ELSE IF nodesFull(nodes, safe.maxNodes)
           THEN finish(TRUE) /\ UNCHANGED <<nodes, edges, gi>>
           ELSE LET acc == snapshotLinks([nodes |-> nodes \cup {gi}, edges |-> edges,
                                          truncated |-> truncated],
                                         gi, graphExtractLinks(gcontent[gi]), 1)
                IN  /\ nodes' = acc.nodes
                    /\ edges' = acc.edges
                    /\ gi' = gi + 1
                    /\ IF acc.truncated THEN finish(TRUE)
                       ELSE UNCHANGED <<truncated, gpc>>
    /\ UNCHANGED <<gfiles, gcontent, linkBudget, req, safe, visited, elapsed, backlinksIndex,
                   stack, expansions, scanned, capStopped>>

\* lines 276-284: the response is sent and the handler's locals are gone
Respond ==
    /\ gpc = "done"
    /\ gpc' = "idle"
    /\ req' = NoReq
    /\ safe' = [depth |-> 1, maxNodes |-> 1000, timeout |-> 5000]
    /\ nodes' = {}
    /\ edges' = <<>>
    /\ visited' = {}
    /\ truncated' = FALSE
    /\ elapsed' = 0
    /\ backlinksIndex' = NoIndex(gfiles)
    /\ stack' = <<>>
    /\ gi' = 1
    /\ expansions' = <<>>
    /\ scanned' = <<>>
    /\ capStopped' = {}
    /\ UNCHANGED <<gfiles, gcontent, linkBudget>>

GraphNext ==
    \/ AddLink
    \/ GraphQuery
    \/ Tick
    \/ IndexFile
    \/ Enter
    \/ OutLink
    \/ InLink
    \/ SnapshotFile
    \/ Respond

(***************************************************************************)
(* Properties of /graph/query                                              *)
(***************************************************************************)
FileIds == 1..Len(gfiles)
\* the files the links of file s resolve to
OutTargets(s) ==
    {resolve(gfiles, l.target) : l \in SeqRange(graphExtractLinks(gcontent[s]))} \ {0}
\* file s has a link that resolves to file t
LinksTo(s, t) == t \in OutTargets(s)
RECURSIVE Closure(_, _, _)
Closure(seen, frontier, direction) ==
    IF frontier = {} THEN seen
    ELSE LET out == IF direction \in {"out", "both"}
                    THEN UNION {OutTargets(n) : n \in frontier} ELSE {}
             in == IF direction \in {"in", "both"}
                   THEN {m \in FileIds \ seen : OutTargets(m) \cap frontier # {}} ELSE {}
         IN  Closure(seen \cup out \cup in, (out \cup in) \ seen, direction)
\* the notes reachable from the request's start note
Reachable ==
    LET start == resolve(gfiles, req.from)
    IN  IF req.from = NoFrom \/ start = 0 THEN {} ELSE Closure({start}, {start}, req.direction)
ExpandCount(f) == Cardinality({i \in 1..Len(expansions) : expansions[i].file = f})
Running == gpc \in {"index", "traverse", "snapshot"}

\* C7: the traversal expands each note at most once, and with fewer notes
\* reachable than the node cap (and the time budget not used up) the
\* response has truncated = false.  (Termination: GraphTerminates.)
C7_ExpandedOnceNotTruncated ==
    /\ \A f \in FileIds : ExpandCount(f) <= 1
    /\ (gpc = "done" /\ req.from # NoFrom /\ elapsed <= safe.timeout /\ truncated) =>
            Cardinality(Reachable) >= safe.maxNodes

\* every query that started sends its response
GraphTerminates == Running ~> (gpc = "done")

C9_TruncatedWhenLimited ==
    (gpc = "done" /\ capStopped # {}) => truncated

\* C10: the backlink index built before the traversal maps each note to
\* every file that links to it, each file being scanned once, so every file
\* linking to an expanded note is an incoming neighbour in the response.
C10_BacklinkIndexComplete ==
    /\ (gpc = "traverse" /\ HasIn /\ ~truncated) =>
          /\ scanned = [i \in FileIds |-> i]
          /\ \A t \in FileIds : \A s \in FileIds :
                LinksTo(s, t) => \E k \in 1..Len(backlinksIndex[t]) : backlinksIndex[t][k].file = s
    /\ (gpc = "done" /\ HasIn /\ req.from # NoFrom /\ ~truncated) =>
          \A i \in 1..Len(expansions) : \A s \in FileIds \ {expansions[i].file} :
              LinksTo(s, expansions[i].file) =>
                  (s \in nodes /\ edgeExists(edges, s, expansions[i].file))

\* C11: no /graph/query response, from a traversal or from the whole-vault
\* snapshot, holds two edges with the same (source, target) pair.
C11_EdgesUnique ==
    gpc = "done" =>
        \A i \in 1..Len(edges) : \A j \in 1..Len(edges) :
            (edges[i].source = edges[j].source /\ edges[i].target = edges[j].target) => i = j

\* the notes within k link hops of the notes in seen
RECURSIVE Hops(_, _, _)
Hops(seen, k, direction) ==
    LET out == IF direction \in {"out", "both"}
               THEN UNION {OutTargets(n) : n \in seen} ELSE {}
        in == IF direction \in {"in", "both"}
              THEN {m \in FileIds : OutTargets(m) \cap seen # {}} ELSE {}
    IN  IF k = 0 \/ (out \cup in) \subseteq seen THEN seen
        ELSE Hops(seen \cup out \cup in, k - 1, direction)
\* the notes within the requested depth of the request's start note
WithinDepth ==
    LET start == resolve(gfiles, req.from)
    IN  IF req.from = NoFrom \/ start = 0 THEN {}
        ELSE Hops({start}, Max(0, req.depth), req.direction)

\* C26: a query from note X with depth D returns only notes within D link
\* hops of X in the requested direction; depth 0 returns X alone.
C26_OnlyWithinDepth ==
    (gpc = "done" /\ req.from # NoFrom) => nodes \subseteq WithinDepth

\* C27: a query from note X with depth D that answers truncated = false
\* returns every note within D link hops of X in the requested direction.
C27_CompleteWhenNotTruncated ==
    (gpc = "done" /\ req.from # NoFrom /\ ~truncated) => WithinDepth \subseteq nodes

(***************************************************************************)
(* Path validation: packages/cli/src/lib/notes.ts, the bridge's            *)
(* validatePath and the cache's validateFolder                             *)
(***************************************************************************)
\* number of "/"-separated pieces of a path a caller passes in
MaxSegs == 3

\* A path string is the sequence of its pieces between the "/" characters:
\* "" is <<Empty>>, "/a" is <<Empty, a>>, "a/" is <<a, Empty>>.  A piece is
\* the text `base`, followed by ".md" when ext holds.
Comp(base, ext) == [base |-> base, ext |-> ext]
Empty == Comp("", FALSE)
Dot == Comp(".", FALSE)
DotDot == Comp("..", FALSE)
PathComps == {Empty, Dot, DotDot, Comp("a", FALSE), Comp("a", TRUE), Comp("v2", FALSE)}
PathInputs == UNION {[1..n -> PathComps] : n \in 1..MaxSegs}

\* the vault is /v; /v2 lies beside it.  Absolute resolved paths are written
\* as the sequence of their pieces, without the leading Empty.
VaultRoot == <<Comp("v", FALSE)>>
OutsideDir == <<Comp("v2", FALSE)>>

\* s.startsWith("/"), s.endsWith("/"), s.endsWith(".md"), s + ".md"
startsWithSlash(s) == Len(s) >= 2 /\ s[1] = Empty
endsWithSlash(s) == Len(s) >= 2 /\ s[Len(s)] = Empty
endsWithMd(s) == s[Len(s)].ext
appendMd(s) == [s EXCEPT ![Len(s)].ext = TRUE]
\* the piece holds two dots in a row: "..", "x..y", "...md", "..md"
compIncludesDotDot(c) == c.base \in {"..", "x..y"} \/ (c.base = "." /\ c.ext)
\* s.includes("..")
includesDotDot(s) == \E i \in 1..Len(s) : compIncludesDotDot(s[i])
\* c.startsWith(".")
startsWithDot(c) == c.base \in {".", "..", ".trash"} \/ (c.base = "" /\ c.ext)
\* the text of piece c starts with the text of piece d
compStartsWith(c, d) ==
    \/ c = d
    \/ d = Empty
    \/ (d = Comp("v", FALSE) /\ c.base = "v2")
    \/ (~d.ext /\ c.ext /\ c.base = d.base)

\* notes.ts lines 15-29 and the bridge's copy
normalizePath(notePath) ==
    LET stripped == IF startsWithSlash(notePath) THEN Tail(notePath) ELSE notePath
    IN  IF endsWithMd(stripped) THEN stripped ELSE appendMd(stripped)

\* node:path normalizeString: drop "" and ".", let ".." take back a piece
RECURSIVE normalizeString(_, _, _)
normalizeString(res, rest, allowAboveRoot) ==
    IF rest = <<>> THEN res
    ELSE LET c == Head(rest)
         IN  IF c = Empty \/ c = Dot
             THEN normalizeString(res, Tail(rest), allowAboveRoot)
             ELSE IF c = DotDot
             THEN IF res # <<>> /\ res[Len(res)] # DotDot
                  THEN normalizeString(SubSeq(res, 1, Len(res) - 1), Tail(rest), allowAboveRoot)
                  ELSE IF allowAboveRoot
                  THEN normalizeString(Append(res, DotDot), Tail(rest), allowAboveRoot)
                  ELSE normalizeString(res, Tail(rest), allowAboveRoot)
             ELSE normalizeString(Append(res, c), Tail(rest), allowAboveRoot)

\* node:path normalize (POSIX)
normalize(s) ==
    IF s = <<Empty>> THEN <<Dot>>
    ELSE LET isAbsolute == startsWithSlash(s)
             p == normalizeString(<<>>, s, ~isAbsolute)
         IN  IF p = <<>>
             THEN IF isAbsolute THEN <<Empty, Empty>>
                  ELSE IF endsWithSlash(s) THEN <<Dot, Empty>> ELSE <<Dot>>
             ELSE (IF isAbsolute THEN <<Empty>> ELSE <<>>) \o p
                  \o (IF endsWithSlash(s) THEN <<Empty>> ELSE <<>>)

\* node:path resolve(root, s) for an absolute root
pathResolve(root, s) ==
    IF startsWithSlash(s) THEN normalizeString(<<>>, s, FALSE)
    ELSE normalizeString(<<>>, root \o s, FALSE)

\* fullPath.startsWith(root + "/") for resolved paths
startsWithRootSlash(full, root) ==
    Len(full) > Len(root) /\ SubSeq(full, 1, Len(root)) = root
\* fullPath.startsWith(root)
startsWithRoot(full, root) ==
    /\ Len(full) >= Len(root)
    /\ SubSeq(full, 1, Len(root) - 1) = SubSeq(root, 1, Len(root) - 1)
    /\ compStartsWith(full[Len(root)], root[Len(root)])

Invalid(code) == [ok |-> FALSE, code |-> code, path |-> <<>>]
Valid(path) == [ok |-> TRUE, code |-> "ok", path |-> path]

\* the same without the "/" after the root
safePathNoSlash(notePath, vaultRoot) ==
    LET normalized == normalize(notePath)
    IN  IF includesDotDot(normalized) THEN Invalid("INVALID_PATH")
        ELSE LET fullPath == pathResolve(vaultRoot, normalized)
             IN  IF ~startsWithRoot(fullPath, vaultRoot) /\ fullPath # vaultRoot
                 THEN Invalid("INVALID_PATH")
                 ELSE Valid(fullPath)
\* notes.ts lines 36-55
safePath(notePath, vaultRoot) ==
    LET normalized == normalize(notePath)
    IN  IF includesDotDot(normalized) THEN Invalid("INVALID_PATH")
        ELSE LET fullPath == pathResolve(vaultRoot, normalized)
             IN  IF ~startsWithRootSlash(fullPath, vaultRoot) /\ fullPath # vaultRoot
                 THEN Invalid("INVALID_PATH")
                 ELSE Valid(fullPath)

\* notes.ts lines 58-62, after requireVault
getFullPath(notePath) == safePath(normalizePath(notePath), VaultRoot)

\* the bridge's validatePath: it returns the normalized relative path
validatePath(notePath, vaultPath) ==
    LET normalized == normalizePath(notePath)
    IN  IF includesDotDot(normalized) THEN Invalid("Path traversal not allowed")
        ELSE LET fullPath == pathResolve(vaultPath, normalized)
             IN  IF ~startsWithRootSlash(fullPath, vaultPath) /\ fullPath # vaultPath
                 THEN Invalid("Path escapes vault")
                 ELSE Valid(normalized)

\* the cache's validateFolder (index.ts 18-27, search.ts 14-22); "" is falsy
validateFolder(folder) ==
    IF folder = <<Empty>> THEN Valid(<<>>)
    ELSE LET normalized == normalize(folder)
         IN  IF includesDotDot(normalized) THEN Invalid("INVALID_PATH") ELSE Valid(normalized)

(***************************************************************************)
(* The CLI note operations, the cache's folder filters, the bridge's       *)
(* validator: one call at a time on a small file system                    *)
(***************************************************************************)
MAX_SCAN_DEPTH == 20

VARIABLES
    arg,       \* the path or folder the caller passes
    vaultSet,  \* the configuration names an existing vault
    nfs,       \* files and directories, as resolved absolute paths
    call       \* the last call: operation, outcome, validator result, accesses

noteVars == <<arg, vaultSet, nfs, call>>

\* an access to the file system or to the database, in the order made
Ev(kind, path) == [kind |-> kind, path |-> path]
\* requireVault reads ~/.petra/config.json and Obsidian's vault list
Cfg == Ev("config", <<>>)
NoRet == Invalid("none")
Res(code, ret, log, touched, fs) ==
    [outcome |-> code, ret |-> ret, log |-> log, touched |-> touched, fs |-> fs]

dirname(full) == SubSeq(full, 1, Len(full) - 1)
Ancestors(full) == {SubSeq(full, 1, k) : k \in 1..(Len(full) - 1)}
isUnder(p, dir) == Len(p) > Len(dir) /\ SubSeq(p, 1, Len(dir)) = dir
existsSync(fs, p) == p \in fs.files \/ p \in fs.dirs
\* no ancestor of the path is a regular file
canHold(fs, p) == Ancestors(p) \cap fs.files = {}
\* mkdirSync(dir, {recursive: true})
mkdirp(fs, dir) == [fs EXCEPT !.dirs = @ \cup Ancestors(dir) \cup {dir}]
rebase(p, from, to) == IF p = from \/ isUnder(p, from)
                       THEN to \o SubSeq(p, Len(from) + 1, Len(p)) ELSE p
\* renameSync can move `from` onto `to`
canRename(fs, from, to) ==
    /\ canHold(fs, to)
    /\ dirname(to) \in fs.dirs
    /\ from \in fs.files => to \notin fs.dirs
    /\ from \in fs.dirs =>
          /\ to \notin fs.files
          /\ ~isUnder(to, from)
          /\ \A q \in fs.files \cup fs.dirs : ~isUnder(q, to)
renameSync(fs, from, to) ==
    [files |-> {rebase(p, from, to) : p \in fs.files \ {to}},
     dirs |-> {rebase(p, from, to) : p \in fs.dirs}]

\* notes.ts lines 103-121, after getFullPath returned fullPath
readAt(fs, ret, log) ==
    IF ~existsSync(fs, ret.path)
    THEN Res("NOT_FOUND", ret, log \o <<Ev("exists", ret.path)>>, {}, fs)
    ELSE IF ret.path \in fs.dirs
    THEN Res("EISDIR", ret, log \o <<Ev("exists", ret.path), Ev("read", ret.path)>>, {}, fs)
    ELSE Res("ok", ret, log \o <<Ev("exists", ret.path), Ev("read", ret.path)>>, {}, fs)

\* notes.ts lines 103-121
readNote(fs, vs, notePath) ==
    IF ~vs THEN Res("VAULT_NOT_SET", NoRet, <<Cfg>>, {}, fs)
    ELSE LET ret == getFullPath(notePath)
         IN  IF ~ret.ok THEN Res(ret.code, ret, <<Cfg>>, {}, fs)
             ELSE readAt(fs, ret, <<Cfg>>)

\* notes.ts lines 65-100
createNote(fs, vs, notePath) ==
    IF ~vs THEN Res("VAULT_NOT_SET", NoRet, <<Cfg>>, {}, fs)
    ELSE LET ret == getFullPath(notePath)
             dir == dirname(ret.path)
             log1 == <<Cfg, Ev("exists", ret.path)>>
             log2 == log1 \o <<Ev("exists", dir)>>
             log3 == IF existsSync(fs, dir) THEN log2 ELSE log2 \o <<Ev("mkdir", dir)>>
         IN  IF ~ret.ok THEN Res(ret.code, ret, <<Cfg>>, {}, fs)
             ELSE IF existsSync(fs, ret.path) THEN Res("ALREADY_EXISTS", ret, log1, {}, fs)
             ELSE IF ~canHold(fs, ret.path) THEN Res("ENOTDIR", ret, log3, {}, fs)
             ELSE Res("ok", ret, log3 \o <<Ev("write", ret.path)>>, {},
                      [mkdirp(fs, dir) EXCEPT !.files = @ \cup {ret.path}])

\* the directory of deleted notes and the name getUniqueTrashPath builds
TrashDir == VaultRoot \o <<Comp(".trash", FALSE)>>
TrashPath == TrashDir \o <<Comp("trashed", TRUE)>>

\* notes.ts lines 171-191
deleteNote(fs, vs, notePath, useTrash) ==
    IF ~vs THEN Res("VAULT_NOT_SET", NoRet, <<Cfg>>, {}, fs)
    ELSE LET ret == getFullPath(notePath)
             log1 == <<Cfg, Ev("exists", ret.path)>>
             log2 == log1 \o <<Cfg, Ev("exists", TrashDir)>>
             log3 == IF existsSync(fs, TrashDir) THEN log2 ELSE log2 \o <<Ev("mkdir", TrashDir)>>
             fs3 == mkdirp(fs, TrashDir)
         IN  IF ~ret.ok THEN Res(ret.code, ret, <<Cfg>>, {}, fs)
             ELSE IF ~existsSync(fs, ret.path) THEN Res("NOT_FOUND", ret, log1, {}, fs)
             ELSE IF useTrash
             THEN IF canRename(fs3, ret.path, TrashPath)
                  THEN Res("ok", ret, log3 \o <<Ev("rename", ret.path), Ev("rename", TrashPath)>>,
                           {}, renameSync(fs3, ret.path, TrashPath))
                  ELSE Res("FS_ERROR", ret,
                           log3 \o <<Ev("rename", ret.path), Ev("rename", TrashPath)>>, {}, fs3)
             ELSE IF ret.path \in fs.dirs
             THEN Res("FS_ERROR", ret, log1 \o <<Ev("unlink", ret.path)>>, {}, fs)
             ELSE Res("ok", ret, log1 \o <<Ev("unlink", ret.path)>>, {},
                      [fs EXCEPT !.files = @ \ {ret.path}])

\* notes.ts lines 282-307
moveNote(fs, vs, fromPath, toPath, force) ==
    IF ~vs THEN Res("VAULT_NOT_SET", NoRet, <<Cfg>>, {}, fs)
    ELSE LET from == getFullPath(fromPath)
             to == getFullPath(toPath)
             destDir == dirname(to.path)
             log1 == <<Cfg, Cfg, Ev("exists", from.path)>>
             log2 == log1 \o <<Ev("exists", to.path)>>
             log3 == log2 \o <<Ev("exists", destDir)>>
             log4 == IF existsSync(fs, destDir) THEN log3 ELSE log3 \o <<Ev("mkdir", destDir)>>
             log5 == log4 \o <<Ev("rename", from.path), Ev("rename", to.path)>>
             fs4 == mkdirp(fs, destDir)
         IN  IF ~from.ok THEN Res(from.code, from, <<Cfg>>, {}, fs)
             ELSE IF ~to.ok THEN Res(to.code, to, <<Cfg, Cfg>>, {}, fs)
             ELSE IF ~existsSync(fs, from.path) THEN Res("NOT_FOUND", to, log1, {}, fs)
             ELSE IF existsSync(fs, to.path) /\ ~force THEN Res("ALREADY_EXISTS", to, log2, {}, fs)
             ELSE IF ~existsSync(fs, destDir) /\ ~canHold(fs, to.path)
             THEN Res("ENOTDIR", to, log4, {}, fs)
             ELSE IF from.path = to.path
             THEN readAt(fs4, to, log5 \o <<Cfg>>)
             ELSE IF ~canRename(fs4, from.path, to.path)
             THEN Res("FS_ERROR", to, log5, {}, fs4)
             ELSE readAt(renameSync(fs4, from.path, to.path), to, log5 \o <<Cfg>>)

\* scanDir (notes.ts 209-263, 330-423): the directories it lists and the
\* notes it reads below dir; entries starting with "." are skipped
scanDirs(fs, dir) ==
    {dir} \cup {d \in fs.dirs : /\ isUnder(d, dir)
                                /\ Len(d) - Len(dir) <= MAX_SCAN_DEPTH
                                /\ \A k \in (Len(dir) + 1)..Len(d) : ~startsWithDot(d[k])}
scanFiles(fs, dir) ==
    {f \in fs.files : /\ dirname(f) \in scanDirs(fs, dir)
                      /\ ~startsWithDot(f[Len(f)])
                      /\ endsWithMd(f)}

\* notes.ts lines 194-279 (listNotes) and 310-430 (searchNotes)
scanNotes(fs, vs, folder) ==
    IF ~vs THEN Res("VAULT_NOT_SET", NoRet, <<Cfg>>, {}, fs)
    ELSE LET ret == IF folder = <<Empty>> THEN Valid(VaultRoot) ELSE safePath(folder, VaultRoot)
             log1 == <<Cfg, Ev("exists", ret.path)>>
         IN  IF ~ret.ok THEN Res(ret.code, ret, <<Cfg>>, {}, fs)
             ELSE IF ~existsSync(fs, ret.path) THEN Res("ok", ret, log1, {}, fs)
             ELSE IF ret.path \in fs.files
             THEN Res("ENOTDIR", ret, log1 \o <<Ev("readdir", ret.path)>>, {}, fs)
             ELSE Res("ok", ret, log1 \o <<Ev("readdir", ret.path)>>,
                      scanDirs(fs, ret.path) \cup scanFiles(fs, ret.path), fs)

\* VaultCache.listNotes (index.ts 190-230)
cacheListNotes(fs, folder) ==
    LET ret == validateFolder(folder)
    IN  IF ~ret.ok THEN Res(ret.code, ret, <<>>, {}, fs)
        ELSE Res("ok", ret, <<Ev("db", <<>>)>>, {}, fs)

\* searchContent (search.ts 25-41): no query is run for a blank search text
searchContent(fs, blank, folder) ==
    LET ret == validateFolder(folder)
    IN  IF ~ret.ok THEN Res(ret.code, ret, <<>>, {}, fs)
        ELSE IF blank THEN Res("ok", ret, <<>>, {}, fs)
        ELSE Res("ok", ret, <<Ev("db", <<>>)>>, {}, fs)

NoCall == [op |-> "none", outcome |-> "none", ret |-> NoRet, log |-> <<>>, touched |-> {}]
NoteA == <<Comp("a", FALSE)>>
NoteB == <<Comp("b", FALSE)>>

\* a vault /v holding a.md, beside a directory /v2 holding a.md
NotesInit ==
    /\ arg \in PathInputs
    /\ vaultSet \in BOOLEAN
    /\ nfs = [files |-> {VaultRoot \o <<Comp("a", TRUE)>>, OutsideDir \o <<Comp("a", TRUE)>>},
              dirs |-> {VaultRoot, OutsideDir}]
    /\ call = NoCall

NotesFrozen ==
    /\ arg = <<Empty>>
    /\ vaultSet = FALSE
    /\ nfs = [files |-> {}, dirs |-> {}]
    /\ call = NoCall

\* the call returns or throws
Do(op, r) ==
    /\ call' = [op |-> op, outcome |-> r.outcome, ret |-> r.ret, log |-> r.log,
                touched |-> r.touched]
    /\ nfs' = r.fs
    /\ UNCHANGED <<arg, vaultSet>>

CliReadNote == Do("readNote", readNote(nfs, vaultSet, arg))
CliCreateNote == Do("createNote", createNote(nfs, vaultSet, arg))
CliDeleteNote == \E useTrash \in BOOLEAN : Do("deleteNote", deleteNote(nfs, vaultSet, arg, useTrash))
CliMoveNote ==
    \E force \in BOOLEAN :
        \/ Do("moveNote", moveNote(nfs, vaultSet, arg, NoteB, force))
        \/ Do("moveNote", moveNote(nfs, vaultSet, NoteA, arg, force))
CliListNotes == Do("listNotes", scanNotes(nfs, vaultSet, arg))
CliSearchNotes == Do("searchNotes", scanNotes(nfs, vaultSet, arg))
CacheListNotes == Do("cache.listNotes", cacheListNotes(nfs, arg))
CacheSearchContent == \E blank \in BOOLEAN : Do("cache.searchContent", searchContent(nfs, blank, arg))
BridgeValidatePath ==
    LET ret == validatePath(arg, VaultRoot)
    IN  Do("validatePath", Res(ret.code, ret, <<>>, {}, nfs))

NotesNext ==
    \/ CliReadNote
    \/ CliCreateNote
    \/ CliDeleteNote
    \/ CliMoveNote
    \/ CliListNotes
    \/ CliSearchNotes
    \/ CacheListNotes
    \/ CacheSearchContent
    \/ BridgeValidatePath

(***************************************************************************)
(* Properties of the path validators                                       *)
(***************************************************************************)
CliPathOps == {"readNote", "createNote", "deleteNote", "moveNote"}
CliOps == CliPathOps \cup {"listNotes", "searchNotes"}
\* the path is the vault root or lies below it
InVault(p) == p = VaultRoot \/ isUnder(p, VaultRoot)
\* every file or directory the call touched
Accessed == {call.log[i].path : i \in {j \in 1..Len(call.log) :
                                          call.log[j].kind \notin {"config", "db"}}}
            \cup call.touched

\* C12: a folder filter given to the cache's listNotes/searchContent, or a
\* note path or folder given to readNote, createNote, deleteNote, moveNote
\* or listNotes of the CLI, that contains ".." is rejected with INVALID_PATH.
C12_DotDotRejected ==
    (call.op \in {"cache.listNotes", "cache.searchContent"} \cup CliPathOps \cup {"listNotes"}
        /\ includesDotDot(arg)) => call.outcome = "INVALID_PATH"

C14_InvalidFolderBeforeAccess ==
    /\ (call.op = "cache.listNotes" /\ ~validateFolder(arg).ok) =>
          (call.outcome = "INVALID_PATH" /\ call.log = <<>>)
    /\ (call.op = "listNotes" /\ arg # <<Empty>> /\ ~safePath(arg, VaultRoot).ok) =>
          (call.outcome = "INVALID_PATH" /\ call.log = <<>>)

(***************************************************************************)
(* The bridge's HTTP server: packages/plugin/src/server.ts, main.ts,       *)
(* auth.ts and the token buttons of settings.ts                            *)
(***************************************************************************)
\* number of distinct tokens that exist in one behaviour
MaxTokens == 3

\* tokens are 1..MaxTokens; 0 is null, the empty string or a missing word
NoToken == 0
\* an Authorization header as authHeader.split(" ") sees it: the first
\* word, the second word, and whether more words follow
Header(type, token, more) == [type |-> type, token |-> token, more |-> more]
NoHeader == Header("none", NoToken, FALSE)
Bearer(token) == Header("Bearer", token, FALSE)
Headers ==
    {NoHeader, Header("Bearer", NoToken, TRUE)}
    \cup {Header("Bearer", t, more) : t \in 1..MaxTokens, more \in BOOLEAN}
    \cup {Header("Basic", t, FALSE) : t \in 1..MaxTokens}
Methods == {"GET", "POST", "OPTIONS"}
UrlPaths == {"/health", "/vault", "/nope"}
\* main.ts 42-77: one of the routes registerRoutes adds
Routes == {<<"GET", "/vault">>}

\* a check that looks at the scheme only
checkAuthSchemeOnly(token, h) ==
    IF token = NoToken THEN TRUE
    ELSE IF h = NoHeader THEN FALSE
    ELSE ~(h.type # "Bearer" \/ h.token = NoToken)
\* server.ts 166-180
checkAuth(token, h) ==
    IF token = NoToken THEN TRUE
    ELSE IF h = NoHeader THEN FALSE
    ELSE IF h.type # "Bearer" \/ h.token = NoToken THEN FALSE
    ELSE h.token = token

VARIABLES
    tokenFile,  \* the content of ~/.petra/token, NoToken when absent or blank
    authToken,  \* PetraServer.authToken
    listening,  \* the server accepts connections
    loaded,     \* onload has run
    nextToken,  \* the next token randomBytes will produce
    inflight,   \* the request whose body is being read, if any
    served      \* the last request dealt with: answered by the server
                \* itself (status) or passed to its route handler

bridgeVars == <<tokenFile, authToken, listening, loaded, nextToken, inflight, served>>

Request(method, path, header, tokenAtCheck) ==
    [method |-> method, path |-> path, header |-> header, tokenAtCheck |-> tokenAtCheck]
NoRequest == Request("none", "none", NoHeader, NoToken)
\* status 0: the route handler was called, authToken being tokenAtCall
Invoked(r, token) == [req |-> r, status |-> 0, tokenAtCall |-> token]
Answered(r, status) == [req |-> r, status |-> status, tokenAtCall |-> NoToken]
NoneServed == Answered(NoRequest, 0)

\* the plugin object exists, onload has not run; a token file may exist
BridgeInit ==
    /\ tokenFile \in {NoToken, 1}
    /\ authToken = NoToken
    /\ listening = FALSE
    /\ loaded = FALSE
    /\ nextToken = 2
    /\ inflight = NoRequest
    /\ served = NoneServed

BridgeFrozen ==
    /\ tokenFile = NoToken
    /\ authToken = NoToken
    /\ listening = FALSE
    /\ loaded = FALSE
    /\ nextToken = 2
    /\ inflight = NoRequest
    /\ served = NoneServed

\* main.ts 10-32 with auth.ts getOrCreateToken; the port may be taken
OnLoad ==
    /\ ~loaded
    /\ IF tokenFile # NoToken
       THEN /\ authToken' = tokenFile
            /\ UNCHANGED <<tokenFile, nextToken>>
       ELSE /\ authToken' = nextToken
            /\ tokenFile' = nextToken
            /\ nextToken' = nextToken + 1
    /\ loaded' = TRUE
    /\ listening' \in BOOLEAN
    /\ UNCHANGED <<inflight, served>>

\* main.ts 34-40
OnUnload ==
    /\ loaded /\ listening
    /\ listening' = FALSE
    /\ UNCHANGED <<tokenFile, authToken, loaded, nextToken, inflight, served>>

\* settings.ts 159-170: Generate Token
GenerateToken ==
    /\ loaded
    /\ nextToken <= MaxTokens
    /\ tokenFile' = nextToken
    /\ authToken' = nextToken
    /\ nextToken' = nextToken + 1
    /\ UNCHANGED <<listening, loaded, inflight, served>>

\* settings.ts 184-205: Set Token, with a well-formed token
SetTokenManually ==
    /\ loaded
    /\ \E t \in 1..MaxTokens :
          /\ t # authToken
          /\ tokenFile' = t
          /\ authToken' = t
    /\ UNCHANGED <<listening, loaded, nextToken, inflight, served>>

\* server.ts 60-92 and 113-145: a request arrives and is answered, or its
\* route is found and the handler waits for the body
Receive ==
    /\ listening
    /\ inflight = NoRequest
    /\ \E method \in Methods, path \in UrlPaths, header \in Headers :
          LET r == Request(method, path, header, authToken)
              answer(status) == served' = Answered(r, status) /\ UNCHANGED inflight
          IN  IF method = "OPTIONS" THEN answer(204)
              ELSE IF path = "/health" /\ method = "GET" THEN answer(200)
              ELSE IF ~checkAuth(authToken, header) THEN answer(401)
              ELSE IF <<method, path>> \notin Routes THEN answer(404)
              ELSE /\ inflight' = r
                   /\ UNCHANGED served
    /\ UNCHANGED <<tokenFile, authToken, listening, loaded, nextToken>>

\* server.ts 146-159 and 87-91: the body has been read and the handler is
\* called, or the body was too large (413), or reading it failed (500)
BodyRead ==
    /\ inflight # NoRequest
    /\ \/ served' = Invoked(inflight, authToken)
       \/ \E status \in {413, 500} : served' = Answered(inflight, status)
    /\ inflight' = NoRequest
    /\ UNCHANGED <<tokenFile, authToken, listening, loaded, nextToken>>

BridgeNext ==
    \/ OnLoad
    \/ OnUnload
    \/ GenerateToken
    \/ SetTokenManually
    \/ Receive
    \/ BodyRead

\* the header is "Bearer <token>", optionally followed by more words
Presents(h, token) == h.type = "Bearer" /\ h.token = token /\ token # NoToken
HandlerCalled == served.req # NoRequest /\ served.status = 0

WrittenLinks(p) ==
    IF Committed /\ class[p] \in {"added", "modified"} /\ readRes[p].st = "read"
    THEN extractLinks(parseFrontmatter(readRes[p].doc).content)
    ELSE <<>>
Writes(links, target) == {i \in 1..Len(links) : links[i].target = target}
BothStyles(links, target) ==
    {links[i].type : i \in Writes(links, target)} = {"wiki", "markdown"}
FirstWritten(links, target) ==
    links[CHOOSE i \in Writes(links, target) : \A j \in Writes(links, target) : i <= j]
LastWritten(links, target) ==
    links[CHOOSE i \in Writes(links, target) : \A j \in Writes(links, target) : i >= j]
LinkRows(t, p, target) == {r \in t.links : r.source = p /\ r.target = target}

\* C19: a target that one file links in wiki style and in markdown style has
\* one link row after the sync, and the row has the type written last.
C19_LastWriteWins ==
    \A p \in Paths : \A target \in {l.target : l \in SeqRange(WrittenLinks(p))} :
        BothStyles(WrittenLinks(p), target) =>
            /\ Cardinality(LinkRows(db, p, target)) = 1
            /\ \A r \in LinkRows(db, p, target) :
                   r.type = LastWritten(WrittenLinks(p), target).type

\* C19 (amended): a target that one file links in wiki style and in markdown
\* style has one link row after the sync, and the row has the type written
\* first, which is wiki.
C19_FirstWriteWins ==
    \A p \in Paths : \A target \in {l.target : l \in SeqRange(WrittenLinks(p))} :
        BothStyles(WrittenLinks(p), target) =>
            /\ Cardinality(LinkRows(db, p, target)) = 1
            /\ \A r \in LinkRows(db, p, target) :
                   /\ r.type = FirstWritten(WrittenLinks(p), target).type
                   /\ r.type = "wiki"

\* a committed pass indexed a file that links one target in both styles
C19_Witness ==
    \E p \in Paths : \E target \in {l.target : l \in SeqRange(WrittenLinks(p))} :
        /\ BothStyles(WrittenLinks(p), target)
        /\ LastWritten(WrittenLinks(p), target).type = "markdown"
        /\ LinkRows(db, p, target) = {[source |-> p, target |-> target, type |-> "wiki"]}

\* the foreign keys of schema.ts lines 31-46 and the one search row per file
\* that processFile (lines 143-145) and the deletion loop (167-170) maintain
Consistent(t) ==
    /\ \A r \in t.tags : r.path \in FilePaths(t)
    /\ \A r \in t.links : r.source \in FilePaths(t)
    /\ \A p \in FilePaths(t) : BagCardinality(RowsOf(t, p).fts) = 1
    /\ \A r \in DOMAIN t.fts : r.path \in FilePaths(t)

\* C29: after every completed sync(), whatever disk changes, read failures
\* and passes came before, every tags row and every links row belongs to a
\* files row, each files row has exactly one full-text row, and no
\* full-text row belongs to a path that has no files row.
C29_ReferentiallyConsistent == Committed => Consistent(db)

\* a completed pass met a modified file it could not read, and the rows of
\* its older content are still in every table
C29_Witness ==
    /\ Committed
    /\ \E p \in Paths :
           /\ class[p] = "modified"
           /\ readRes[p] = Unreadable
           /\ RowsOf(db, p).tags # {}
           /\ RowsOf(db, p).links # {}
           /\ BagCardinality(RowsOf(db, p).fts) = 1

(***************************************************************************)
(* Writers that never reuse a modification time.  The mtimes of a path     *)
(* that the program can still hold are those on disk, in a files row, and  *)
(* in the scan and the cached snapshot of the running pass (sync.ts lines  *)
(* 79-86); a write that creates a file or changes its content or its mtime *)
(* takes an mtime that is none of them.                                    *)
(***************************************************************************)
EarlierMtimes(p) ==
    (IF disk[p].present THEN {disk[p].mtime} ELSE {})
        \cup {r.mtime : r \in {x \in db.files \cup txn.files : x.path = p}}
        \cup {f.mtime : f \in {x \in SeqRange(diskFiles) : x.path = p}}
        \cup (IF p \in DOMAIN cachedFiles THEN {cachedFiles[p]} ELSE {})

FreshWrites ==
    \A p \in Paths :
        (/\ disk'[p].present
         /\ \/ ~disk[p].present
            \/ disk'[p].doc # disk[p].doc
            \/ disk'[p].mtime # disk[p].mtime)
            => disk'[p].mtime \notin EarlierMtimes(p)

\* the pass that just completed began after the last change of the vault
QuietPass == Committed /\ ~dirty

\* the files row of p has the mtime of the file on disk and the other
\* rows of p are those of its content
CaughtUp(t, p) ==
    /\ p \in FilePaths(t)
    /\ FileRow(t, p).mtime = disk[p].mtime
    /\ RowsReflect(t, p, disk[p].doc)

MaxChars == 6

\* the backtick
Backtick == "tick"
Hash == "#"
TagChar == "t"
Space == " "
Paren == ")"
Scheme == "H"
\* the characters texts are drawn from
Chars == {Backtick, Hash, TagChar, Space, Scheme}
Texts == UNION {[1..n -> Chars] : n \in 0..MaxChars}

\* String.replace keeps the characters outside the matches: a cleaned text is
\* the increasing sequence of the positions of s that survive.
Positions(s) == [i \in 1..Len(s) |-> i]

isFenceAt(s, ix, i) ==
    i + 2 <= Len(ix) /\ \A k \in i..(i + 2) : s[ix[k]] = Backtick

RECURSIVE nextFence(_, _, _)
nextFence(s, ix, i) ==
    IF i + 2 > Len(ix) THEN 0
    ELSE IF isFenceAt(s, ix, i) THEN i
    ELSE nextFence(s, ix, i + 1)

\* content.replace(/```[\s\S]*?```/g, "")
RECURSIVE removeCodeBlocks(_, _, _)
removeCodeBlocks(s, ix, i) ==
    IF i > Len(ix) THEN <<>>
    ELSE IF isFenceAt(s, ix, i) /\ nextFence(s, ix, i + 3) # 0
         THEN removeCodeBlocks(s, ix, nextFence(s, ix, i + 3) + 3)
    ELSE <<ix[i]>> \o removeCodeBlocks(s, ix, i + 1)

RECURSIVE nextTick(_, _, _)
nextTick(s, ix, i) ==
    IF i > Len(ix) THEN 0
    ELSE IF s[ix[i]] = Backtick THEN i
    ELSE nextTick(s, ix, i + 1)

\* cleaned.replace(/`[^`]*`/g, "")
RECURSIVE removeInlineCode(_, _, _)
removeInlineCode(s, ix, i) ==
    IF i > Len(ix) THEN <<>>
    ELSE IF s[ix[i]] = Backtick /\ nextTick(s, ix, i + 1) # 0
         THEN removeInlineCode(s, ix, nextTick(s, ix, i + 1) + 1)
    ELSE <<ix[i]>> \o removeInlineCode(s, ix, i + 1)

\* the first index at or after i that [^\s)] does not match
RECURSIVE urlEnd(_, _, _)
urlEnd(s, ix, i) ==
    IF i > Len(ix) \/ s[ix[i]] \in {Space, Paren} THEN i
    ELSE urlEnd(s, ix, i + 1)

\* cleaned.replace(/https?:\/\/[^\s)]+/g, "")
RECURSIVE removeUrls(_, _, _)
removeUrls(s, ix, i) ==
    IF i > Len(ix) THEN <<>>
    ELSE IF s[ix[i]] = Scheme /\ urlEnd(s, ix, i + 1) > i + 1
         THEN removeUrls(s, ix, urlEnd(s, ix, i + 1))
    ELSE <<ix[i]>> \o removeUrls(s, ix, i + 1)

cleanedText(s) ==
    LET blocks == removeCodeBlocks(s, Positions(s), 1)
        inline == removeInlineCode(s, blocks, 1)
    IN  removeUrls(s, inline, 1)

\* the end of the run of [a-zA-Z0-9_/-] that starts at i
RECURSIVE tagEnd(_, _, _)
tagEnd(s, ix, i) ==
    IF i > Len(ix) \/ s[ix[i]] # TagChar THEN i
    ELSE tagEnd(s, ix, i + 1)

\* A tag is the run of tag characters after "#"; a following "http://" adds
\* its letters "http" to the tag and ends it at the ":".
TagText(s, ix, i) ==
    LET e == tagEnd(s, ix, i)
    IN  [n |-> e - i, h |-> e <= Len(ix) /\ s[ix[e]] = Scheme]

\* cleaned.matchAll(/#([a-zA-Z0-9_/-]+)/g), each match with the position its
\* "#" has in the text
tagMatches(s) ==
    LET ix == cleanedText(s)
    IN  {[pos |-> ix[i], tag |-> TagText(s, ix, i + 1)] :
            i \in {k \in 1..Len(ix) : /\ s[ix[k]] = Hash
                                      /\ TagText(s, ix, k + 1) # [n |-> 0, h |-> FALSE]}}

extractInlineTagsOfText(s) == {m.tag : m \in tagMatches(s)}

\* The code regions of Markdown: a run of n backticks opens code that the next run
\* of exactly n backticks closes (a code span, or a fenced block for n >= 3);
\* a run that nothing closes is literal text.
RECURSIVE runLen(_, _)
runLen(s, i) ==
    IF i > Len(s) \/ s[i] # Backtick THEN 0 ELSE 1 + runLen(s, i + 1)

RECURSIVE closingRun(_, _, _)
closingRun(s, i, n) ==
    IF i > Len(s) THEN 0
    ELSE IF s[i] # Backtick THEN closingRun(s, i + 1, n)
    ELSE IF runLen(s, i) = n THEN i
    ELSE closingRun(s, i + runLen(s, i), n)

RECURSIVE codeRegion(_, _)
codeRegion(s, i) ==
    IF i > Len(s) THEN {}
    ELSE IF s[i] # Backtick THEN codeRegion(s, i + 1)
    ELSE LET n == runLen(s, i)
             c == closingRun(s, i + n, n)
         IN  IF c = 0 THEN codeRegion(s, i + n)
             ELSE (i..(c + n - 1)) \cup codeRegion(s, c + n)

\* a URL: "http://" outside code and the characters up to the next white space
\* or ")"
RECURSIVE urlRegion(_, _)
urlRegion(s, i) ==
    IF i > Len(s) THEN {}
    ELSE IF s[i] = Scheme /\ i \notin codeRegion(s, 1)
            /\ urlEnd(s, Positions(s), i + 1) > i + 1
         THEN (i..(urlEnd(s, Positions(s), i + 1) - 1))
                  \cup urlRegion(s, urlEnd(s, Positions(s), i + 1))
    ELSE urlRegion(s, i + 1)

VARIABLES input, output
textVars == <<input, output>>

NoOutput == [kind |-> "none"]
TextInput(s) == [kind |-> "text", v |-> s]

ExtractInlineTags ==
    /\ input.kind = "text"
    /\ output = NoOutput
    /\ output' = [kind |-> "tags", matches |-> tagMatches(input.v),
                  tags |-> extractInlineTagsOfText(input.v)]
    /\ UNCHANGED input

\* C16: inline tag extraction returns no tag whose "#" lies in a fenced code
\* block, in an inline code span or in a URL.
C16_NoTagFromCodeOrUrl ==
    output.kind = "tags" =>
        \A m \in output.matches :
            m.pos \notin (codeRegion(input.v, 1) \cup urlRegion(input.v, 1))

(***************************************************************************)
(* extractLinks on drawn Markdown texts: a text is a sequence of link      *)
(* tokens, each a wikilink or an inline link.                              *)
(***************************************************************************)
MaxToks == 3

LinkWords ==
    {Wiki("a"), Wiki("b"), MdLink("b", FALSE, FALSE, FALSE),
     MdLink("site", FALSE, FALSE, TRUE), MdLink("", FALSE, TRUE, FALSE)}
        \cup {MdLink("a", ext, frag, FALSE) : ext \in BOOLEAN, frag \in BOOLEAN}
LinkTexts == UNION {[1..n -> LinkWords] : n \in 0..MaxToks}

MarkdownInput(content) == [kind |-> "markdown", v |-> content]

ExtractLinks ==
    /\ input.kind = "markdown"
    /\ output = NoOutput
    /\ output' = [kind |-> "links", links |-> extractLinks(input.v)]
    /\ UNCHANGED input

TokenKind(l) == IF l.type = "wiki" THEN "wiki" ELSE "md"

\* the positions of the text whose token is read as the link l
Occurrences(content, l) ==
    {k \in 1..Len(content) : LinkOfToken(content[k], TokenKind(l)) = {l}}
FirstOccurrence(content, l) ==
    CHOOSE k \in Occurrences(content, l) : \A j \in Occurrences(content, l) : k <= j

NoDuplicateLinks(links) ==
    \A i \in 1..Len(links) : \A j \in 1..Len(links) : links[i] = links[j] => i = j

\* C17: extractLinks returns no two entries with the same (type, target), and
\* the entries are in the order of their first occurrence in the text.
C17_TextOrder ==
    output.kind = "links" =>
        /\ NoDuplicateLinks(output.links)
        /\ \A i \in 1..Len(output.links) : \A j \in 1..Len(output.links) :
               i < j => FirstOccurrence(input.v, output.links[i])
                            < FirstOccurrence(input.v, output.links[j])

\* C17 (amended): extractLinks returns no two entries with the same
\* (type, target); every wikilink comes before every markdown link, and the
\* links of one type are in the order of their first occurrence in the text.
C17_WikiThenMarkdownOrder ==
    output.kind = "links" =>
        /\ NoDuplicateLinks(output.links)
        /\ \A i \in 1..Len(output.links) : Occurrences(input.v, output.links[i]) # {}
        /\ \A i \in 1..Len(output.links) : \A j \in 1..Len(output.links) :
               i < j =>
                   IF output.links[i].type = output.links[j].type
                   THEN FirstOccurrence(input.v, output.links[i])
                            < FirstOccurrence(input.v, output.links[j])
                   ELSE output.links[i].type = "wiki"

\* a markdown link stands in the text before a wikilink and after it in the
\* result, and a repeated link was dropped
C17_Witness ==
    /\ output.kind = "links"
    /\ Len(output.links) = 2
    /\ Len(input.v) = 3
    /\ output.links[1].type = "wiki"
    /\ output.links[2].type = "markdown"
    /\ FirstOccurrence(input.v, output.links[2]) < FirstOccurrence(input.v, output.links[1])

\* the inline links of the text that are neither external nor a bare #anchor
InternalLinks(content) ==
    {k \in 1..Len(content) :
        /\ content[k].k = "md"
        /\ ~content[k].href.external
        /\ ~(content[k].href.name = "" /\ ~content[k].href.ext /\ content[k].href.frag)}

\* C18: the target recorded for an inline link that is neither external nor
\* a bare #anchor is its href without the .md extension and without the
\* #fragment.
C18_ExtensionAndFragmentStripped ==
    output.kind = "links" =>
        \A k \in InternalLinks(input.v) :
            \E i \in 1..Len(output.links) :
                /\ LinkOfToken(input.v[k], "md") = {output.links[i]}
                /\ output.links[i].target = Target(input.v[k].href.name, FALSE)

(***************************************************************************)
(* VaultCache.getNotesByTag (packages/cache/src/index.ts) on drawn tags: a *)
(* tag is a sequence of characters of the tag alphabet.                    *)
(***************************************************************************)
MaxTagLen == 2

TagLetters == {"a", "A", "_"}
TagStrings == UNION {[1..n -> TagLetters] : n \in 1..MaxTagLen}
NoTag == <<>>

\* SQLite LIKE folds the case of ASCII letters
lower(c) == IF c = "A" THEN "a" ELSE c

\* SQLite LIKE: "%" matches any run of characters, "_" any one character
RECURSIVE like(_, _)
like(str, pattern) ==
    IF pattern = <<>> THEN str = <<>>
    ELSE IF Head(pattern) = "%"
         THEN like(str, Tail(pattern)) \/ (str # <<>> /\ like(Tail(str), pattern))
    ELSE IF str = <<>> THEN FALSE
    ELSE /\ Head(pattern) = "_" \/ lower(Head(pattern)) = lower(Head(str))
         /\ like(Tail(str), Tail(pattern))

\* the paths of the rows getNotesByTag returns when no limit is given
getNotesByTag(t, tag, exactMatch) ==
    {Stem(f.path) :
        f \in {r \in t.files :
                 \E g \in t.tags :
                     /\ g.path = r.path
                     /\ IF exactMatch THEN g.tag = tag
                        ELSE like(g.tag, <<"%">> \o tag \o <<"%">>)}}

\* the cache of a vault whose notes carry the tags of `stored`
TaggedDb(stored) ==
    [EmptyDb EXCEPT !.files = {[path |-> p] : p \in Paths},
                    !.tags = {[tag |-> stored[p], path |-> p] :
                                 p \in {q \in Paths : stored[q] # NoTag}}]

\* the first note has no tag or the tag "a", the other notes any tag or none
StoredTags ==
    {stored \in [Paths -> TagStrings \cup {NoTag}] :
        stored[PathOrder[1]] \in {NoTag, <<"a">>}}

QueryInput(stored, tag, exactMatch) ==
    [kind |-> "query", stored |-> stored, tag |-> tag, exactMatch |-> exactMatch]

GetNotesByTag ==
    /\ input.kind = "query"
    /\ output = NoOutput
    /\ output' = [kind |-> "notes",
                  notes |-> getNotesByTag(TaggedDb(input.stored), input.tag, input.exactMatch)]
    /\ UNCHANGED input

RECURSIVE isPrefix(_, _)
isPrefix(sub, str) ==
    sub = <<>> \/ (str # <<>> /\ Head(sub) = Head(str) /\ isPrefix(Tail(sub), Tail(str)))
RECURSIVE contains(_, _)
contains(str, sub) ==
    isPrefix(sub, str) \/ (str # <<>> /\ contains(Tail(str), sub))

\* C20: getNotesByTag returns the notes with a stored tag equal to the tag
\* when exactMatch is set, and the notes with a stored tag that contains the
\* tag as a literal substring otherwise.
C20_ExactOrSubstring ==
    output.kind = "notes" =>
        output.notes =
            {Stem(p) : p \in {q \in Paths :
                IF input.exactMatch THEN input.stored[q] = input.tag
                ELSE input.stored[q] # NoTag /\ contains(input.stored[q], input.tag)}}

(***************************************************************************)
(* listNotes: order and limit (packages/cli/src/lib/notes.ts 194-279,      *)
(* packages/cache/src/index.ts 190-230).  A vault is the sequence of its    *)
(* notes in the order readdirSync returns them; a note is known by its      *)
(* place in that sequence and carries the dates of its frontmatter.         *)
(***************************************************************************)
MaxNotes == 3

\* a date that is missing: undefined in a NoteInfo, NULL in a files row
NoDate == 0
Dates == {NoDate, 1, 2}
\* the created dates of the notes: none, or one that is not below a modified date
CreatedDates == {NoDate, 2}
\* options.limit is undefined
NoLimit == 0
Limits == {NoLimit, 1, 2}
NoteVaults == UNION {[1..n -> [modified : Dates, created : CreatedDates]] : n \in 0..MaxNotes}

ListInput(notes, limit) == [kind |-> "list", notes |-> notes, limit |-> limit]

Orders(k) == {f \in [1..k -> 1..k] : \A i \in 1..k : \A j \in 1..k : f[i] = f[j] => i = j}
\* s.slice(0, k)
slice(s, k) == SubSeq(s, 1, Min(k, Len(s)))

\* String(a.modified || a.created || "")
sortDate(note) == IF note.modified # NoDate THEN note.modified ELSE note.created

\* notes.ts 194-279: scanDir stops once notes.length >= limit; the notes it
\* pushed are then sorted (the sort is stable) and sliced
cliListNotes(notes, limit) ==
    LET pushed == IF limit # NoLimit THEN Min(limit, Len(notes)) ELSE Len(notes)
        sorted == CHOOSE f \in Orders(pushed) :
                     \A i \in 1..pushed : \A j \in 1..pushed :
                         i < j => \/ sortDate(notes[f[i]]) > sortDate(notes[f[j]])
                                  \/ /\ sortDate(notes[f[i]]) = sortDate(notes[f[j]])
                                     /\ f[i] < f[j]
    IN  IF limit # NoLimit THEN slice(sorted, limit) ELSE sorted

\* a comes before b under ORDER BY modified DESC NULLS LAST, created DESC
\* NULLS LAST (NoDate is below every date)
OrderedBefore(a, b) ==
    \/ a.modified > b.modified
    \/ a.modified = b.modified /\ a.created > b.created

\* index.ts 190-230: the rows in an order the ORDER BY clause allows (rows
\* that tie come in any order), cut by LIMIT
cacheListNotesOrders(notes, limit) ==
    {IF limit # NoLimit THEN slice(f, limit) ELSE f :
        f \in {g \in Orders(Len(notes)) :
                 \A i \in 1..Len(notes) : \A j \in 1..Len(notes) :
                     i < j => ~OrderedBefore(notes[g[j]], notes[g[i]])}}

CliListOrdered ==
    /\ input.kind = "list"
    /\ output = NoOutput
    /\ output' = [kind |-> "listed", by |-> "cli", notes |-> cliListNotes(input.notes, input.limit)]
    /\ UNCHANGED input

CacheListOrdered ==
    /\ input.kind = "list"
    /\ output = NoOutput
    /\ \E rows \in cacheListNotesOrders(input.notes, input.limit) :
           output' = [kind |-> "listed", by |-> "cache", notes |-> rows]
    /\ UNCHANGED input

\* the listed notes are in order, and no note left out comes before a listed one
OrderedTop(notes, limit, out) ==
    /\ Len(out) = (IF limit # NoLimit THEN Min(limit, Len(notes)) ELSE Len(notes))
    /\ \A i \in 1..Len(out) : \A j \in 1..Len(out) :
           i < j => out[i] # out[j] /\ ~OrderedBefore(notes[out[j]], notes[out[i]])
    /\ \A x \in 1..Len(notes) : \A i \in 1..Len(out) :
           x \notin SeqRange(out) => ~OrderedBefore(notes[x], notes[out[i]])

\* C21: listNotes returns the notes by modified descending, then created
\* descending, missing dates last, and with a limit N the first N notes of
\* that order, whatever the scan order.
C21_OrderedThenLimited ==
    output.kind = "listed" => OrderedTop(input.notes, input.limit, output.notes)

(***************************************************************************)
(* The limit option when absent (search.ts 25-64, index.ts 85-124 and      *)
(* 190-230): a query matches the notes 1..matching, in result order.       *)
(***************************************************************************)
MaxMatching == 51

DEFAULT_SEARCH_LIMIT == 50

CountInput(api, matching, limit) ==
    [kind |-> "count", api |-> api, matching |-> matching, limit |-> limit]
LimitedApis == {"listNotes", "searchContent", "getNotesByTag"}

\* a search with no default: LIMIT is left out when the option is absent
searchLimitNoDefault(limit) == limit
\* const limit = options.limit ?? 50
searchLimit(limit) == IF limit = NoLimit THEN DEFAULT_SEARCH_LIMIT ELSE limit

\* the rows the query returns: LIMIT ? is added when the limit is truthy
\* (listNotes, getNotesByTag) or always (searchContent)
limitedRows(api, matching, limit) ==
    LET n == IF api = "searchContent" THEN searchLimit(limit) ELSE limit
    IN  IF n = NoLimit THEN 1..matching ELSE 1..Min(n, matching)

RunLimited ==
    /\ input.kind = "count"
    /\ output = NoOutput
    /\ output' = [kind |-> "rows", rows |-> limitedRows(input.api, input.matching, input.limit)]
    /\ UNCHANGED input

\* C22: with no limit option, listNotes, searchContent and getNotesByTag
\* return every matching note.
C22_AbsentLimitUnbounded ==
    (output.kind = "rows" /\ input.limit = NoLimit) => output.rows = 1..input.matching

\* C22 (amended): with no limit option, listNotes and getNotesByTag return
\* every matching note, and searchContent returns the first 50.
C22_AbsentLimitUnboundedButSearch ==
    (output.kind = "rows" /\ input.limit = NoLimit) =>
        output.rows = IF input.api = "searchContent"
                      THEN 1..Min(DEFAULT_SEARCH_LIMIT, input.matching)
                      ELSE 1..input.matching

\* a search without limit matched more than 50 notes and returned 50
C22_Witness ==
    /\ output.kind = "rows" /\ input.limit = NoLimit
    /\ input.api = "searchContent"
    /\ input.matching > DEFAULT_SEARCH_LIMIT
    /\ Cardinality(output.rows) = DEFAULT_SEARCH_LIMIT

(***************************************************************************)
(* scanVault (packages/cache/src/sync.ts 26-62) on drawn directory trees:  *)
(* the vault root holds a.md and the directory d, d holds b.md, and one     *)
(* directory may hold the symbolic link l.md.                               *)
(***************************************************************************)
LinkName == "l.md"
\* what the link points to; "gone" is a target that does not exist
LinkTargets == {"root", "d", "a.md", "b.md", "gone"}
NoLink == [dir |-> "none", to |-> "none"]
Trees ==
    [link : {NoLink} \cup [dir : {"root", "d"}, to : LinkTargets],
     dStat : BOOLEAN, dList : BOOLEAN]
TreeInput(tree) == [kind |-> "tree", tree |-> tree]

\* readdirSync(dir)
readdirSync(tree, dir) ==
    (IF dir = "root" THEN <<"a.md", "d">> ELSE <<"b.md">>)
        \o (IF tree.link.dir = dir THEN <<LinkName>> ELSE <<>>)
\* readdirSync throws: the directory cannot be listed
readdirThrows(tree, dir) == dir = "d" /\ ~tree.dList
\* the file or directory statSync(fullPath) describes: statSync follows links
statTarget(tree, entry) == IF entry = LinkName THEN tree.link.to ELSE entry
\* statSync throws: the target is missing or cannot be statted
statThrows(tree, obj) == obj = "gone" \/ (obj = "d" /\ ~tree.dStat)
isDirectory(obj) == obj \in {"root", "d"}
\* statSync never describes a link
isSymbolicLink(obj) == FALSE

Scanned(files) == [thrown |-> FALSE, files |-> files]
ScanThrown == [thrown |-> TRUE, files |-> <<>>]

\* the scan in progress: the calls of scan(dir, depth) that have not
\* returned, innermost first, each at its i-th entry, and the files pushed
ScanFrame(dir, rel, depth) == [dir |-> dir, rel |-> rel, depth |-> depth, i |-> 1]
Scanning(calls, files) ==
    IF calls = <<>> THEN [kind |-> "scan", result |-> Scanned(files)]
    ELSE [kind |-> "scanning", calls |-> calls, files |-> files]

\* scan(dir, depth) is called, lines 29-33: it returns at once beyond the
\* depth limit; readdirSync is outside every try and its throw ends scanVault
scanCall(tree, calls, files, dir, rel, depth) ==
    IF depth > MAX_SCAN_DEPTH THEN Scanning(calls, files)
    ELSE IF readdirThrows(tree, dir) THEN [kind |-> "scan", result |-> ScanThrown]
    ELSE Scanning(<<ScanFrame(dir, rel, depth)>> \o calls, files)

\* one iteration of the for loop of the innermost call, lines 34-57, or its
\* return when the entries are used up
scanStep(tree, calls, files) ==
    LET f == Head(calls)
        entries == readdirSync(tree, f.dir)
    IN  IF f.i > Len(entries) THEN Scanning(Tail(calls), files)
        ELSE LET entry == entries[f.i]
                 obj == statTarget(tree, entry)
                 next == <<[f EXCEPT !.i = @ + 1]>> \o Tail(calls)
             IN  IF statThrows(tree, obj) \/ isSymbolicLink(obj) THEN Scanning(next, files)
                 ELSE IF isDirectory(obj)
                 THEN scanCall(tree, next, files, obj, f.rel \o <<entry>>, f.depth + 1)
                 ELSE Scanning(next, Append(files, [path |-> f.rel \o <<entry>>, real |-> obj]))

\* scanVault(vaultPath) begins: line 60
ScanVault ==
    /\ input.kind = "tree"
    /\ output = NoOutput
    /\ output' = scanCall(input.tree, <<>>, <<>>, "root", <<>>, 0)
    /\ UNCHANGED input

\* the scan goes on by one entry
ScanStep ==
    /\ output.kind = "scanning"
    /\ output' = scanStep(input.tree, output.calls, output.files)
    /\ UNCHANGED input

\* C23: the scanner follows no symbolic link: no yielded file is reached
\* through a link, and each real file is yielded at most once.
C23_NoSymlinkFollowed ==
    output.kind = "scan" =>
        LET files == output.result.files
        IN  /\ \A i \in 1..Len(files) : LinkName \notin SeqRange(files[i].path)
            /\ \A i \in 1..Len(files) : \A j \in 1..Len(files) :
                   files[i].real = files[j].real => i = j

\* C24: a directory that cannot be statted or cannot be listed is skipped:
\* the scan does not fail and yields the Markdown files of the readable
\* directories.
C24_UnreadableDirectorySkipped ==
    output.kind = "scan" =>
        /\ ~output.result.thrown
        /\ \E i \in 1..Len(output.result.files) :
               output.result.files[i].path = <<"a.md">>
        /\ (input.tree.dStat /\ input.tree.dList) =>
               \E i \in 1..Len(output.result.files) :
                   output.result.files[i].path = <<"d", "b.md">>

(***************************************************************************)
(* The CORS header of the bridge server (packages/plugin/src/server.ts     *)
(* 60-78).  An Origin header is the text scheme "://" host suffix port,    *)
(* where suffix is text that follows the host name directly.               *)
(***************************************************************************)
Origin(scheme, host, suffix, port) ==
    [scheme |-> scheme, host |-> host, suffix |-> suffix, port |-> port]
\* the request has no Origin header
NoOrigin == Origin("", "", "", "")
\* port "" is no port, ":3000" a numeric port, ":x" a port that is not a number
Origins ==
    {NoOrigin} \cup
    {Origin(scheme, host, suffix, port) :
        scheme \in {"http", "https", "app"},
        host \in {"localhost", "127.0.0.1", "obsidian.md", "example.com"},
        suffix \in {"", ".evil.com"},
        port \in {"", ":3000", ":x"}}
OriginInput(origin) == [kind |-> "origin", origin |-> origin]

\* allowedOrigins.some(allowed => origin.startsWith(allowed))
startsWithAllowed(origin) ==
    \/ origin.scheme = "http" /\ origin.host \in {"localhost", "127.0.0.1"}
    \/ origin.scheme = "app" /\ origin.host = "obsidian.md"
\* origin.match(/^https?:\/\/(localhost|127\.0\.0\.1)(:\d+)?$/)
matchesLocal(origin) ==
    /\ origin.scheme \in {"http", "https"}
    /\ origin.host \in {"localhost", "127.0.0.1"}
    /\ origin.suffix = ""
    /\ origin.port \in {"", ":3000"}

\* the value of Access-Control-Allow-Origin
allowOrigin(origin) ==
    IF origin # NoOrigin /\ (startsWithAllowed(origin) \/ matchesLocal(origin))
    THEN origin
    ELSE Origin("http", "127.0.0.1", "", "")

SetCorsHeaders ==
    /\ input.kind = "origin"
    /\ output = NoOutput
    /\ output' = [kind |-> "cors", allowOrigin |-> allowOrigin(input.origin)]
    /\ UNCHANGED input

\* the origin is app://obsidian.md, or http(s)://localhost or
\* http(s)://127.0.0.1 with an optional numeric port
ExactlyAllowed(origin) ==
    \/ origin = Origin("app", "obsidian.md", "", "")
    \/ matchesLocal(origin)

\* C25: the server echoes the Origin in Access-Control-Allow-Origin only when
\* it is exactly an allowed origin; an origin that merely starts with an
\* allowed one is not echoed.
C25_OnlyExactOriginsEchoed ==
    (output.kind = "cors" /\ input.origin # NoOrigin
        /\ output.allowOrigin = input.origin) => ExactlyAllowed(input.origin)

TextInit ==
    /\ \/ \E s \in Texts : input = TextInput(s)
       \/ \E c \in LinkTexts : input = MarkdownInput(c)
       \/ \E stored \in StoredTags, tag \in TagStrings, e \in BOOLEAN :
              input = QueryInput(stored, tag, e)
       \/ \E notes \in NoteVaults, limit \in Limits : input = ListInput(notes, limit)
       \/ \E api \in LimitedApis, matching \in 0..MaxMatching, limit \in Limits :
              input = CountInput(api, matching, limit)
       \/ \E tree \in Trees : input = TreeInput(tree)
       \/ \E origin \in Origins : input = OriginInput(origin)
    /\ output = NoOutput
TextFrozen ==
    /\ input = TextInput(<<>>)
    /\ output = NoOutput
TextNext ==
    \/ ExtractInlineTags \/ ExtractLinks \/ GetNotesByTag
    \/ CliListOrdered \/ CacheListOrdered \/ RunLimited \/ ScanVault \/ ScanStep \/ SetCorsHeaders

(***************************************************************************)
(* Deleting to the trash (packages/cli/src/lib/notes.ts 162-191) with the  *)
(* clock: the notes are valid paths of the vault, each a folder and a       *)
(* basename.                                                                *)
(***************************************************************************)
MaxClock == 2

TrashNotes == [folder : {"a", "b"}, base : {"x", "y"}]

VARIABLES
    clock,      \* Date.now()
    inVault,    \* the notes that exist in the vault
    trash,      \* the files of .trash: name, timestamp and the note each holds
    trashed     \* the notes deleted with useTrash so far

trashVars == <<clock, inVault, trash, trashed>>

TrashInit ==
    /\ clock = 0
    /\ inVault = TrashNotes
    /\ trash = {}
    /\ trashed = {}
TrashFrozen ==
    /\ clock = 0
    /\ inVault = {}
    /\ trash = {}
    /\ trashed = {}

\* join(trashDir, `${name}-${timestamp}${ext}`)
getUniqueTrashPath(note, timestamp) == [name |-> note.base, ts |-> timestamp]

\* renameSync(fullPath, trashPath): a file already at trashPath is replaced
renameToTrash(files, note, trashPath) ==
    {f \in files : f.path # trashPath} \cup {[path |-> trashPath, note |-> note]}

\* a millisecond passes
ClockTick ==
    /\ clock < MaxClock
    /\ clock' = clock + 1
    /\ UNCHANGED <<inVault, trash, trashed>>

\* deleteNote(notePath, true) for a note that exists
DeleteToTrash ==
    \E note \in inVault :
        /\ trash' = renameToTrash(trash, note, getUniqueTrashPath(note, clock))
        /\ inVault' = inVault \ {note}
        /\ trashed' = trashed \cup {note}
        /\ UNCHANGED clock

\* deleteNote(notePath, false) for a note that exists
DeleteForGood ==
    \E note \in inVault :
        /\ inVault' = inVault \ {note}
        /\ UNCHANGED <<clock, trash, trashed>>

TrashNext == ClockTick \/ DeleteToTrash \/ DeleteForGood

\* C28: after any sequence of trash deletions of distinct notes, every one of
\* them is under .trash with a file name of its own.
C28_TrashKeepsEveryNote ==
    \A note \in trashed : \E f \in trash : f.note = note

vars == <<syncVars, graphVars, noteVars, bridgeVars, textVars, trashVars>>

Init == SyncInit /\ GraphFrozen /\ NotesFrozen /\ BridgeFrozen /\ TextFrozen /\ TrashFrozen
Next == SyncNext /\ UNCHANGED <<graphVars, noteVars, bridgeVars, textVars, trashVars>>
Spec == Init /\ [][Next]_vars

SyncFrozen == SyncInit
InitGraph == GraphInit /\ SyncFrozen /\ NotesFrozen /\ BridgeFrozen /\ TextFrozen /\ TrashFrozen
NextGraph == GraphNext /\ UNCHANGED <<syncVars, noteVars, bridgeVars, textVars, trashVars>>
SpecGraph == InitGraph /\ [][NextGraph]_vars
\* the handler is scheduled until it has sent its response
SpecGraphLive ==
    SpecGraph /\ WF_vars((IndexFile \/ Enter \/ OutLink \/ InLink \/ SnapshotFile)
                         /\ UNCHANGED <<syncVars, noteVars, bridgeVars, textVars, trashVars>>)

InitNotes == NotesInit /\ SyncFrozen /\ GraphFrozen /\ BridgeFrozen /\ TextFrozen /\ TrashFrozen
NextNotes == NotesNext /\ UNCHANGED <<syncVars, graphVars, bridgeVars, textVars, trashVars>>
SpecNotes == InitNotes /\ [][NextNotes]_vars

InitBridge == BridgeInit /\ SyncFrozen /\ GraphFrozen /\ NotesFrozen /\ TextFrozen /\ TrashFrozen
NextBridge == BridgeNext /\ UNCHANGED <<syncVars, graphVars, noteVars, textVars, trashVars>>
SpecBridge == InitBridge /\ [][NextBridge]_vars

InitText == TextInit /\ SyncFrozen /\ GraphFrozen /\ NotesFrozen /\ BridgeFrozen /\ TrashFrozen
NextText == TextNext /\ UNCHANGED <<syncVars, graphVars, noteVars, bridgeVars, trashVars>>
SpecText == InitText /\ [][NextText]_vars
InitTrash == TrashInit /\ SyncFrozen /\ GraphFrozen /\ NotesFrozen /\ BridgeFrozen /\ TextFrozen
NextTrash == TrashNext /\ UNCHANGED <<syncVars, graphVars, noteVars, bridgeVars, textVars>>
SpecTrash == InitTrash /\ [][NextTrash]_vars

\* the cache under writers that never reuse a modification time
NextFresh == Next /\ FreshWrites
SpecFresh == Init /\ [][NextFresh]_vars
====
